---- MODULE Spec2Model ----
(***************************************************************************)
(* GhostRef (src/huggingface/README.md, the DOI -> title -> bibliographic  *)
(* variant): the verification run started by the "verify" button.          *)
(*                                                                         *)
(* JavaScript values are modelled as follows.                              *)
(*   - an object is a function from the names of the properties it has to  *)
(*     their values, so "the property is present" is name \in DOMAIN o and  *)
(*     the spread {a, ...b} is b @@ a;                                     *)
(*   - null / undefined of a nullable non-string is the empty tuple Null,  *)
(*     a value v of such a type is the one-element tuple <<v>>;            *)
(*   - the booleans-or-null of result.valid are "true", "false", "null";   *)
(*   - a text that is tokenised on white space (a title) is the sequence   *)
(*     of its words.                                                       *)
(* The lookup service is the environment: every fetch draws its outcome    *)
(* from the outcomes a fetch can have.  A pdf file is given by what the    *)
(* text extraction and the extractors return on it.                        *)
(***************************************************************************)
EXTENDS Integers, Sequences, FiniteSets, TLC

\* ---------------------------------------------------------------- bounds
MaxCitations == 2
MaxDois == 1

\* ------------------------------------------------------------- JS values
Null == <<>>
Some(v) == <<v>>
NULL == "null"
UNDEFINED == "undefined"

Has(o, f) == f \in DOMAIN o

\* {...base, ...over}: the properties of over win
Spread(base, over) == over @@ base

Range(s) == {s[k] : k \in DOMAIN s}

RECURSIVE Join(_, _)
Join(parts, sep) ==
    IF Len(parts) = 0 THEN ""
    ELSE IF Len(parts) = 1 THEN parts[1]
    ELSE parts[1] \o sep \o Join(Tail(parts), sep)

\* length of the string a sequence of words stands for
StrLen(words) == Len(Join(words, " "))

Digit(d) ==
    CASE d = 0 -> "0" [] d = 1 -> "1" [] d = 2 -> "2" [] d = 3 -> "3"
      [] d = 4 -> "4" [] d = 5 -> "5" [] d = 6 -> "6" [] d = 7 -> "7"
      [] d = 8 -> "8" [] d = 9 -> "9"

\* String(n) of a non-negative integer
RECURSIVE String(_)
String(n) == IF n < 10 THEN Digit(n) ELSE String(n \div 10) \o Digit(n % 10)

\* String.prototype.toLowerCase on the words and DOIs of the model
ToLowerCase(w) ==
    CASE w = "Attention" -> "attention"
      [] w = "Is" -> "is"
      [] w = "All" -> "all"
      [] w = "You" -> "you"
      [] w = "Need" -> "need"
      [] w = "Ghost" -> "ghost"
      [] w = "Deep" -> "deep"
      [] w = "10.1000/ABC" -> "10.1000/abc"
      [] OTHER -> w

TextToLowerCase(words) == [k \in DOMAIN words |-> ToLowerCase(words[k])]

\* ------------------------------------------------------ similarity scorer
\* variant of calculateSimilarity: the share of the words of str1 that
\* str2 has too
calculateSimilarity_ofFirst(str1, str2) ==
    LET words1 == {w \in Range(str1) : Len(w) > 2}
        words2 == {w \in Range(str2) : Len(w) > 2}
        intersection == {x \in words1 : x \in words2}
    IN  IF Cardinality(words1) > 0
        THEN <<Cardinality(intersection), Cardinality(words1)>>
        ELSE <<0, 1>>

\* calculateSimilarity: Jaccard index of the word sets, as the fraction
\* <<numerator, denominator>>; 0 is <<0, 1>>.
calculateSimilarity(str1, str2) ==
    LET words1 == {w \in Range(str1) : Len(w) > 2}
        words2 == {w \in Range(str2) : Len(w) > 2}
        intersection == {x \in words1 : x \in words2}
        union == words1 \cup words2
    IN  IF Cardinality(union) > 0
        THEN <<Cardinality(intersection), Cardinality(union)>>
        ELSE <<0, 1>>

\* Math.round(similarity * 100)
RoundPercent(similarity) ==
    (200 * similarity[1] + similarity[2]) \div (2 * similarity[2])

\* ------------------------------------------------------- lookup service
\* CrossRef works, by the properties the code reads: title, author,
\* published, created, DOI, container-title, publisher.
DateParts(y) == ("date-parts" :> <<<<y>>>>)

WorkFull ==
    [title |-> << <<"Attention", "Is", "All", "You", "Need">> >>,
     author |-> <<[family |-> "Vaswani"], [family |-> "Shazeer"],
                  [name |-> "Parmar"], [given |-> "Jakob"]>>,
     published |-> DateParts(2017),
     DOI |-> "10.1000/abc"]
    @@ ("container-title" :> <<"NeurIPS">>)

WorkOther ==
    [title |-> << <<"Ghost", "references", "need", "attention">> >>,
     author |-> <<[family |-> "Doe"]>>,
     created |-> DateParts(2020),
     DOI |-> "10.7777/other",
     publisher |-> "Springer"]

\* a work with none of the properties the code reads
WorkBare == [type |-> "journal-article"]

\* the works a search returns as its first item
Works == {WorkOther, WorkBare}

\* What awaiting fetch(url) and response.json() can give: a rejection (the
\* network failed or the body did not parse), or a response with a status
\* and, for a 2xx, its parsed body.
Reject == [type |-> "reject", message |-> "Failed to fetch"]
HttpError(s) == [type |-> "response", status |-> s]
Ok(data) == [type |-> "response", status |-> 200, data |-> data]

DoiResponses ==
    {Reject, HttpError(404), HttpError(500)}
        \cup {Ok([message |-> w]) : w \in {WorkFull, WorkBare}}

SearchResponses ==
    {Reject, HttpError(500), Ok([message |-> [items |-> <<>>]])}
        \cup {Ok([message |-> [items |-> <<w>>]]) : w \in Works}

\* response.ok
ResponseOk(response) == response.status \in 200..299

\* authors.slice(0, 3).map(a => a.family || a.name || 'Unknown').join(', ')
\*   + (authors.length > 3 ? ' et al.' : ''), or 'Unknown' without authors
AuthorName(a) ==
    IF Has(a, "family") THEN a.family
    ELSE IF Has(a, "name") THEN a.name
    ELSE "Unknown"

authorStr(work) ==
    LET authors == IF Has(work, "author") THEN work.author ELSE <<>>
        first == SubSeq(authors, 1, IF Len(authors) < 3 THEN Len(authors) ELSE 3)
    IN  IF Len(authors) > 0
        THEN Join([k \in DOMAIN first |-> AuthorName(first[k])], ", ")
                 \o (IF Len(authors) > 3 THEN " et al." ELSE "")
        ELSE "Unknown"

\* work[f]?.['date-parts']?.[0]?.[0], 0 standing for undefined
DateYear(work, f) ==
    IF Has(work, f) /\ Has(work[f], "date-parts")
           /\ Len(work[f]["date-parts"]) > 0
           /\ Len(work[f]["date-parts"][1]) > 0
    THEN work[f]["date-parts"][1][1]
    ELSE 0

\* String(published year || created year || 'Unknown')
yearStr(work) ==
    IF DateYear(work, "published") # 0 THEN String(DateYear(work, "published"))
    ELSE IF DateYear(work, "created") # 0 THEN String(DateYear(work, "created"))
    ELSE "Unknown"

\* work['container-title']?.[0] || work.publisher || 'Unknown'
journalStr(work) ==
    IF Has(work, "container-title") /\ Len(work["container-title"]) > 0
    THEN work["container-title"][1]
    ELSE IF Has(work, "publisher") THEN work.publisher
    ELSE "Unknown"

\* work.title?.[0] || dflt
titleOr(work, dflt) ==
    IF Has(work, "title") /\ Len(work.title) > 0 /\ Len(work.title[1]) > 0
    THEN work.title[1]
    ELSE dflt

\* work.DOI
workDOI(work) == IF Has(work, "DOI") THEN work.DOI ELSE UNDEFINED

\* error.message || dflt
MessageOr(message, dflt) == IF message # "" THEN message ELSE dflt

\* variant of verifyDOI: the 404 test is missing, a 404 is one more HTTP error
verifyDOI_no404(doi, response) ==
    IF response.type = "reject"
    THEN [valid |-> NULL, error |-> MessageOr(response.message, "Network error")]
    ELSE IF ~ResponseOk(response)
    THEN [valid |-> NULL, error |-> "HTTP " \o String(response.status)]
    ELSE LET work == response.data.message
         IN  [valid |-> "true",
              title |-> titleOr(work, <<"Unknown">>),
              authors |-> authorStr(work),
              year |-> yearStr(work),
              doi |-> workDOI(work),
              journal |-> journalStr(work),
              method |-> "doi"]

\* variant of verifyDOI: the catch reports the DOI as not found
verifyDOI_catchNotFound(doi, response) ==
    IF response.type = "reject"
    THEN [valid |-> "false", error |-> MessageOr(response.message, "Network error")]
    ELSE IF response.status = 404
    THEN [valid |-> "false", error |-> "DOI not found in CrossRef"]
    ELSE IF ~ResponseOk(response)
    THEN [valid |-> NULL, error |-> "HTTP " \o String(response.status)]
    ELSE LET work == response.data.message
         IN  [valid |-> "true",
              title |-> titleOr(work, <<"Unknown">>),
              authors |-> authorStr(work),
              year |-> yearStr(work),
              doi |-> workDOI(work),
              journal |-> journalStr(work),
              method |-> "doi"]

\* verifyDOI(doi): the direct lookup of one DOI
verifyDOI(doi, response) ==
    IF response.type = "reject"
    THEN [valid |-> NULL, error |-> MessageOr(response.message, "Network error")]
    ELSE IF response.status = 404
    THEN [valid |-> "false", error |-> "DOI not found in CrossRef"]
    ELSE IF ~ResponseOk(response)
    THEN [valid |-> NULL, error |-> "HTTP " \o String(response.status)]
    ELSE LET work == response.data.message
         IN  [valid |-> "true",
              title |-> titleOr(work, <<"Unknown">>),
              authors |-> authorStr(work),
              year |-> yearStr(work),
              doi |-> workDOI(work),
              journal |-> journalStr(work),
              method |-> "doi"]

\* variant of searchCrossRef: a best match less than 40% similar is rejected
\* (the rule of the earlier variant, src/app.js)
searchCrossRef_threshold(title, rawCitation, index, response) ==
    LET head == [index |-> index, raw |-> rawCitation, searchedTitle |-> title]
    IN  IF response.type = "reject"
        THEN Spread(head, [valid |-> NULL,
                           error |-> MessageOr(response.message, "Network error")])
        ELSE IF ~ResponseOk(response)
        THEN Spread(head, [valid |-> NULL,
                           error |-> "HTTP " \o String(response.status)])
        ELSE LET items == response.data.message.items
             IN  IF Len(items) = 0
                 THEN Spread(head,
                        [valid |-> "false",
                         error |-> "No matching publication found in CrossRef"])
                 ELSE LET work == items[1]
                          foundTitle == titleOr(work, <<>>)
                          similarity ==
                              calculateSimilarity(TextToLowerCase(title),
                                                  TextToLowerCase(foundTitle))
                      IN  IF 10 * similarity[1] < 4 * similarity[2]
                          THEN Spread(head, [valid |-> "false",
                                   error |-> "Best match doesn't match"])
                          ELSE Spread(head,
                            [valid |-> "true",
                             title |-> foundTitle,
                             authors |-> authorStr(work),
                             year |-> yearStr(work),
                             doi |-> workDOI(work),
                             journal |-> journalStr(work),
                             similarity |-> RoundPercent(similarity)])

\* variant of searchCrossRef: a rejected best match is reported with its title
searchCrossRef_keepsBestMatch(title, rawCitation, index, response) ==
    LET head == [index |-> index, raw |-> rawCitation, searchedTitle |-> title]
    IN  IF response.type = "reject"
        THEN Spread(head, [valid |-> NULL,
                           error |-> MessageOr(response.message, "Network error")])
        ELSE IF ~ResponseOk(response)
        THEN Spread(head, [valid |-> NULL,
                           error |-> "HTTP " \o String(response.status)])
        ELSE LET items == response.data.message.items
             IN  IF Len(items) = 0
                 THEN Spread(head,
                        [valid |-> "false",
                         error |-> "No matching publication found in CrossRef"])
                 ELSE LET work == items[1]
                          foundTitle == titleOr(work, <<>>)
                          similarity ==
                              calculateSimilarity(TextToLowerCase(title),
                                                  TextToLowerCase(foundTitle))
                      IN  IF 10 * similarity[1] < 4 * similarity[2]
                          THEN Spread(head, [valid |-> "false",
                                   title |-> foundTitle,
                                   error |-> "Best match doesn't match"])
                          ELSE Spread(head,
                            [valid |-> "true",
                             title |-> foundTitle,
                             authors |-> authorStr(work),
                             year |-> yearStr(work),
                             doi |-> workDOI(work),
                             journal |-> journalStr(work),
                             similarity |-> RoundPercent(similarity)])

\* searchCrossRef(title, rawCitation, index): the title search
searchCrossRef(title, rawCitation, index, response) ==
    LET head == [index |-> index, raw |-> rawCitation, searchedTitle |-> title]
    IN  IF response.type = "reject"
        THEN Spread(head, [valid |-> NULL,
                           error |-> MessageOr(response.message, "Network error")])
        ELSE IF ~ResponseOk(response)
        THEN Spread(head, [valid |-> NULL,
                           error |-> "HTTP " \o String(response.status)])
        ELSE LET items == response.data.message.items
             IN  IF Len(items) = 0
                 THEN Spread(head,
                        [valid |-> "false",
                         error |-> "No matching publication found in CrossRef"])
                 ELSE LET work == items[1]
                          foundTitle == titleOr(work, <<>>)
                          similarity ==
                              calculateSimilarity(TextToLowerCase(title),
                                                  TextToLowerCase(foundTitle))
                      IN  Spread(head,
                            [valid |-> "true",
                             title |-> foundTitle,
                             authors |-> authorStr(work),
                             year |-> yearStr(work),
                             doi |-> workDOI(work),
                             journal |-> journalStr(work),
                             similarity |-> RoundPercent(similarity)])

\* the query string of searchCrossRefBiblio, before query.trim()
biblioQuery(biblio) ==
    (IF Has(biblio, "author") THEN biblio.author \o " " ELSE "")
        \o (IF Has(biblio, "journal") THEN biblio.journal \o " " ELSE "")
        \o (IF Has(biblio, "year") THEN biblio.year \o " " ELSE "")
        \o (IF Has(biblio, "volume") THEN biblio.volume ELSE "")

\* searchCrossRefBiblio(biblio, rawCitation, index): the bibliographic search
searchCrossRefBiblio(biblio, rawCitation, index, response) ==
    LET head == [index |-> index, raw |-> rawCitation]
    IN  IF response.type = "reject"
        THEN Spread(head, [valid |-> NULL, error |-> response.message])
        ELSE IF ~ResponseOk(response)
        THEN Spread(head, [valid |-> NULL,
                           error |-> "HTTP " \o String(response.status)])
        ELSE LET items == response.data.message.items
             IN  IF Len(items) = 0
                 THEN Spread(head, [searchedBiblio |-> biblioQuery(biblio),
                                    valid |-> "false",
                                    error |-> "No match found"])
                 ELSE LET work == items[1]
                      IN  Spread(head,
                            [valid |-> "true",
                             title |-> titleOr(work, <<"Unknown">>),
                             authors |-> authorStr(work),
                             year |-> yearStr(work),
                             doi |-> workDOI(work),
                             journal |-> journalStr(work),
                             method |-> "biblio"])

\* ------------------------------------------------------------ extraction
\* A citation text, by what the extractors return on it: the property doi
\* is what extractDOI finds, title what extractTitle finds, biblio what
\* extractBiblio finds; a property the text does not have is a null.
TitleLong == <<"Attention", "is", "all", "you", "need">>
TitleShort == <<"Deep", "learning">>
BiblioBundle == [author |-> "Vaswani", year |-> "2017", journal |-> "Nature"]

Dois == {"10.1000/ABC"}

CitationTexts ==
    {[doi |-> "10.1000/ABC", title |-> TitleLong, biblio |-> BiblioBundle],
     <<>>,
     [title |-> TitleShort],
     [title |-> TitleLong],
     [biblio |-> BiblioBundle],
     [title |-> TitleLong, biblio |-> BiblioBundle]}

extractDOI(text) == IF Has(text, "doi") THEN text.doi ELSE NULL
extractTitle(text) == IF Has(text, "title") THEN Some(text.title) ELSE Null
extractBiblio(text) == IF Has(text, "biblio") THEN Some(text.biblio) ELSE Null

\* the citations parseCitations(findReferencesSection(text)) returns

RECURSIVE SeqsUpTo(_, _)
SeqsUpTo(S, n) ==
    IF n = 0 THEN {<<>>}
    ELSE LET shorter == SeqsUpTo(S, n - 1)
         IN  shorter \cup {Append(q, x) : q \in {r \in shorter : Len(r) = n - 1},
                                          x \in S}

\* (index: the number of the citation's marker, or its position in the match
\* list; a references text may repeat a number)
CitationLists ==
    {[k \in DOMAIN texts |-> [raw |-> texts[k], index |-> IF repeat THEN 1 ELSE k]] :
        texts \in SeqsUpTo(CitationTexts, MaxCitations), repeat \in BOOLEAN}

NoDuplicates(q) == \A a, b \in DOMAIN q : q[a] = q[b] => a = b

\* A pdf file, by what extractTextFromPDF does on it (throws, gives blank
\* text, gives text), what extractAllDOIs finds in the text (an array made
\* from a Set) and the citations parsed from it.
Files ==
    {[extract |-> e, dois |-> <<>>, citations |-> <<>>] : e \in {"throws", "blank"}}
        \cup {[extract |-> "text", dois |-> ds, citations |-> cs] :
                ds \in {q \in SeqsUpTo(Dois, MaxDois) : NoDuplicates(q)},
                cs \in CitationLists}

\* ----------------------------------------------------------------- state
VARIABLES
    selectedFile,         \* Null or the selected file
    pc,                   \* where startVerification is: "idle" when no run is on
    i,                    \* 1-based position of the running loop
    doiResults,           \* results of verifyDOIs
    citResults,           \* results of verifyCitations
    allResults,           \* allResults of startVerification
    unverifiedCitations,  \* the citations handed to verifyCitations
    result,               \* result of verifyCitations: Null until a stage sets it
    currentResults,       \* Null or the results shown
    hidden,               \* the sections that carry the class "hidden"
    log,                  \* history: the lookups and pauses of the run, in order
    progress              \* history: the percentages passed to updateProgress

\* The extraction functions, called one at a time on a text (the
\* specifications of the extraction functions below): the argument of the
\* call, what it returned, and the lastIndex of the three DOI_PATTERNS.
VARIABLES
    input,                \* Null or the argument of the call
    output,               \* Null or the value the call returned
    called,               \* the function that returned it, "" before
    lastIndex             \* lastIndex of DOI_PATTERNS[0..2]

runVars == <<selectedFile, pc, i, doiResults, citResults, allResults,
             unverifiedCitations, result, currentResults, hidden, log,
             progress>>
callVars == <<input, output, called, lastIndex>>
vars == <<runVars, callVars>>

Lookup(phase, k, kind, query, response) ==
    [event |-> "lookup", phase |-> phase, i |-> k, kind |-> kind,
     query |-> query, response |-> response]

\* variant of Sleep: the pause takes no time
Sleep_zero(ms) == [event |-> "sleep", ms |-> 0]

Sleep(ms) == [event |-> "sleep", ms |-> ms]

\* the page after init(): no file, no run
NoRun ==
    /\ selectedFile = Null
    /\ pc = "idle"
    /\ i = 0
    /\ doiResults = <<>>
    /\ citResults = <<>>
    /\ allResults = <<>>
    /\ unverifiedCitations = <<>>
    /\ result = Null
    /\ currentResults = Null
    /\ hidden = {"progress", "results", "error"}
    /\ log = <<>>
    /\ progress = <<>>

\* no extraction call made: the patterns as the script created them
NoCall ==
    /\ input = Null
    /\ output = Null
    /\ called = ""
    /\ lastIndex = <<0, 0, 0>>

Init == NoRun /\ NoCall

\* ------------------------------------------------------------ UI handlers
\* a file is dropped or browsed: the drop zone is shown while no file is selected
handleFileSelect ==
    /\ pc = "idle"
    /\ "upload" \notin hidden
    /\ selectedFile = Null
    /\ \E file \in Files : selectedFile' = Some(file)
    /\ UNCHANGED <<pc, i, doiResults, citResults, allResults,
                   unverifiedCitations, result, currentResults, hidden, log,
                   progress>>
    /\ UNCHANGED callVars

resetUpload ==
    /\ pc = "idle"
    /\ "upload" \notin hidden
    /\ selectedFile # Null
    /\ selectedFile' = Null
    /\ UNCHANGED <<pc, i, doiResults, citResults, allResults,
                   unverifiedCitations, result, currentResults, hidden, log,
                   progress>>
    /\ UNCHANGED callVars

\* the "new upload" button of the results section, "retry" of the error section
resetAll ==
    /\ pc = "idle"
    /\ "results" \notin hidden \/ "error" \notin hidden
    /\ selectedFile' = Null
    /\ hidden' = {"progress", "results", "error"}
    /\ currentResults' = Null
    \* the locals of the finished run and its history are gone
    /\ i' = 0
    /\ doiResults' = <<>>
    /\ citResults' = <<>>
    /\ allResults' = <<>>
    /\ unverifiedCitations' = <<>>
    /\ log' = <<>>
    /\ progress' = <<>>
    /\ UNCHANGED <<pc, result>>
    /\ UNCHANGED callVars

\* a click on a filter button of the results section: renderResults() reads
\* currentResults; the filter and the list rendered are not part of the state
filterClick ==
    /\ "results" \notin hidden
    /\ UNCHANGED runVars
    /\ UNCHANGED callVars

showProgress == hidden' = (hidden \cup {"upload", "results", "error"}) \ {"progress"}

showResults == hidden' = (hidden \cup {"progress"}) \ {"results"}

\* showError(message); the text of the message is not part of the state
showError(message) == hidden' = (hidden \cup {"progress"}) \ {"error"}

\* ----------------------------------------------------------- updateProgress
\* A percentage passed to updateProgress, as the fraction num / den.
Percent(num, den) == <<num, den>>
NoMore(a, b) == a[1] * b[2] <= b[1] * a[2]
Same(a, b) == a[1] * b[2] = b[1] * a[2]

\* the pages of a pdf file
NumPages == 2

\* 10 + (10 * (i / numPages)), for each page in turn
PageReports ==
    [k \in 1..NumPages |-> Percent(10 * NumPages + 10 * k, NumPages)]

\* variant of loopProgress: the loop starts from 50
loopProgress_from50(k, total) == Percent(50 * total + 55 * k, total)

\* 40 + (55 * ((i + 1) / total)), k = i + 1
loopProgress(k, total) == Percent(40 * total + 55 * k, total)

\* ------------------------------------------------------ startVerification
\* the click on "verify", up to the await of extractTextFromPDF
startVerification ==
    /\ pc = "idle"
    /\ "upload" \notin hidden
    /\ selectedFile # Null
    /\ showProgress
    /\ pc' = "extract"
    /\ i' = 0
    /\ doiResults' = <<>>
    /\ citResults' = <<>>
    /\ allResults' = <<>>
    /\ unverifiedCitations' = <<>>
    /\ result' = Null
    /\ log' = <<>>
    /\ progress' = <<Percent(10, 1)>>
    /\ UNCHANGED <<selectedFile, currentResults>>
    /\ UNCHANGED callVars

\* variant of NoResults: a run without a Verified result counts as empty
NoResults_noneVerified(all) == \A k \in DOMAIN all : all[k].valid # "true"

\* allResults.length === 0
NoResults(all) == Len(all) = 0

\* new Set(allResults.filter(r => r.valid).map(r => r.doi?.toLowerCase()))
verifiedDOIs(all) ==
    {IF all[k].doi = UNDEFINED THEN UNDEFINED ELSE ToLowerCase(all[k].doi) :
        k \in {n \in DOMAIN all : all[n].valid = "true"}}

\* variant of Unverified: no citation is filtered out
Unverified_all(all, citations) == citations

\* citations.filter(c => !citDOI || !verifiedDOIs.has(citDOI.toLowerCase()))
Unverified(all, citations) ==
    LET keep(c) ==
            LET citDOI == extractDOI(c.raw)
            IN  citDOI = NULL \/ ToLowerCase(citDOI) \notin verifiedDOIs(all)
    IN  SelectSeq(citations, keep)

\* variant of Renumber: the results are numbered from 1
Renumber_fromOne(rs, base) == [k \in DOMAIN rs |-> [rs[k] EXCEPT !.index = k]]

\* variant of Renumber: the results keep the index of their citation
Renumber_kept(rs, base) == rs

\* citResults.forEach((r, i) => r.index = allResults.length + i + 1)
Renumber(rs, base) == [k \in DOMAIN rs |-> [rs[k] EXCEPT !.index = base + k]]

\* step 4: the check for no results, showResults, or the catch
\* variant of Finish: the results are shown without assigning currentResults
Finish_notAssigned(all) ==
    /\ pc' = "idle"
    /\ allResults' = all
    /\ IF NoResults(all)
       THEN /\ showError("Could not find any DOIs or parseable citations in this PDF.")
            /\ UNCHANGED currentResults
       ELSE /\ UNCHANGED currentResults
            /\ showResults

Finish(all) ==
    /\ pc' = "idle"
    /\ allResults' = all
    /\ IF NoResults(all)
       THEN /\ showError("Could not find any DOIs or parseable citations in this PDF.")
            /\ UNCHANGED currentResults
       ELSE /\ currentResults' = Some(all)
            /\ showResults

\* step 3: parse the citations, drop those verified by DOI, start
\* verifyCitations on the rest or go on to step 4
Step3(all) ==
    LET citations == selectedFile[1].citations
        unverified == Unverified(all, citations)
    IN  IF Len(citations) > 0 /\ Len(unverified) > 0
        THEN /\ pc' = "verifyCitations"
             /\ i' = 1
             /\ unverifiedCitations' = unverified
             /\ allResults' = all
             /\ UNCHANGED <<currentResults, hidden>>
        ELSE /\ Finish(all)
             /\ UNCHANGED <<i, unverifiedCitations>>

\* what step 3 reports: 'Parsing citations...' and, when citations are left
\* to verify, 'Verifying n citations by title...'
Step3Reports(all) ==
    <<Percent(50, 1)>>
        \o (IF Len(selectedFile[1].citations) > 0
            THEN IF Len(Unverified(all, selectedFile[1].citations)) > 0
                 THEN <<Percent(60, 1)>> ELSE <<>>
            ELSE <<>>)

\* what is reported from the await of extractTextFromPDF on, up to the next
\* await: the pages, 'Scanning for DOIs...', then 'Verifying n DOIs...' or
\* the reports of step 3
ExtractReports(file) ==
    IF file.extract = "throws" THEN <<>>
    ELSE IF file.extract = "blank" THEN PageReports
    ELSE PageReports \o <<Percent(20, 1)>>
            \o (IF Len(file.dois) > 0 THEN <<Percent(30, 1)>>
                ELSE Step3Reports(<<>>))

\* extractTextFromPDF settles: the catch, the blank check, step 2
ExtractText ==
    /\ pc = "extract"
    /\ LET file == selectedFile[1]
       IN  IF file.extract = "throws"
           THEN /\ showError("Invalid PDF structure")
                /\ pc' = "idle"
                /\ UNCHANGED <<i, allResults, unverifiedCitations, currentResults>>
           ELSE IF file.extract = "blank"
           THEN /\ showError("Could not extract text from PDF. It may be a scanned image.")
                /\ pc' = "idle"
                /\ UNCHANGED <<i, allResults, unverifiedCitations, currentResults>>
           ELSE IF Len(file.dois) > 0
           THEN /\ pc' = "verifyDOIs"
                /\ i' = 1
                /\ UNCHANGED <<allResults, unverifiedCitations, currentResults,
                               hidden>>
           ELSE Step3(<<>>)
    /\ progress' = progress \o ExtractReports(selectedFile[1])
    /\ UNCHANGED <<selectedFile, doiResults, citResults, result, log>>
    /\ UNCHANGED callVars

\* variant of Push: a result that reports a failure is not kept
Push_dropsFailures(results, r) == IF r.valid = NULL THEN results ELSE Append(results, r)

\* results.push(result)
Push(results, r) == Append(results, r)

\* --------------------------------------------------------------- verifyDOIs
\* one turn of the loop of verifyDOIs, up to the await of sleep
VerifyDOIsLookup ==
    /\ pc = "verifyDOIs"
    /\ LET doi == selectedFile[1].dois[i]
       IN  \E response \in DoiResponses :
             /\ doiResults' =
                    Push(doiResults,
                         Spread([index |-> i, raw |-> doi, doi |-> doi],
                                verifyDOI(doi, response)))
             /\ log' = Append(log, Lookup("dois", i, "doi", doi, response))
    /\ progress' = Append(progress, loopProgress(i, Len(selectedFile[1].dois)))
    /\ pc' = "sleepDOIs"
    /\ UNCHANGED <<selectedFile, i, citResults, allResults, unverifiedCitations,
                   result, currentResults, hidden>>
    /\ UNCHANGED callVars

\* sleep(150) is over: the next turn, or the return to startVerification
VerifyDOIsSleep ==
    /\ pc = "sleepDOIs"
    /\ log' = Append(log, Sleep(150))
    /\ progress' = IF i < Len(selectedFile[1].dois) THEN progress
                   ELSE progress \o Step3Reports(doiResults)
    /\ IF i < Len(selectedFile[1].dois)
       THEN /\ i' = i + 1
            /\ pc' = "verifyDOIs"
            /\ UNCHANGED <<allResults, unverifiedCitations, currentResults,
                           hidden>>
       ELSE Step3(doiResults)
    /\ UNCHANGED <<selectedFile, doiResults, citResults, result>>
    /\ UNCHANGED callVars

\* ---------------------------------------------------------- verifyCitations
\* method 1 applies: a DOI was extracted
HasDOI(citation) == extractDOI(citation.raw) # NULL

\* variant of TitleUsable: the length test is missing
TitleUsable_noLength(title) == title # Null

\* title && title.length > 15
TitleUsable(title) == title # Null /\ StrLen(title[1]) > 15

\* !result || result.valid === false
NeedsBiblio(res) == IF res = Null THEN TRUE ELSE res[1].valid = "false"

\* variant of UseBiblio: the bibliographic result always replaces the title's
UseBiblio_always(res, biblioResult) == TRUE

\* variant of UseBiblio: the first result wins
UseBiblio_firstWins(res, biblioResult) == res = Null

\* variant of UseBiblio: any conclusive bibliographic result replaces the title's
UseBiblio_conclusive(res, biblioResult) ==
    IF res = Null THEN TRUE
    ELSE biblioResult.valid # NULL /\ res[1].valid # "true"

\* !result || (biblioResult.valid === true && result.valid !== true)
UseBiblio(res, biblioResult) ==
    IF res = Null THEN TRUE
    ELSE biblioResult.valid = "true" /\ res[1].valid # "true"

\* the result of a citation for which no stage gave one
NoInfoResult(citation) ==
    [index |-> citation.index, raw |-> citation.raw, valid |-> NULL,
     error |-> "Could not extract DOI, title, or bibliographic info"]

\* method 1: the DOI lookup, the push, up to the await of sleep
VerifyCitationsDOI ==
    /\ pc = "verifyCitations"
    /\ LET citation == unverifiedCitations[i]
           doi == extractDOI(citation.raw)
       IN  /\ HasDOI(citation)
           /\ \E response \in DoiResponses :
                /\ citResults' =
                       Push(citResults,
                            Spread([index |-> citation.index, raw |-> citation.raw,
                                    doi |-> doi],
                                   verifyDOI(doi, response)))
                /\ log' = Append(log, Lookup("citations", i, "doi", doi, response))
    /\ progress' = Append(progress, loopProgress(i, Len(unverifiedCitations)))
    /\ pc' = "sleepCitations"
    /\ UNCHANGED <<selectedFile, i, doiResults, allResults, unverifiedCitations,
                   result, currentResults, hidden>>
    /\ UNCHANGED callVars

\* method 2: the title search; then either the await of the bibliographic
\* search, or the push and the await of sleep
VerifyCitationsTitle ==
    /\ pc = "verifyCitations"
    /\ LET citation == unverifiedCitations[i]
           title == extractTitle(citation.raw)
       IN  /\ ~HasDOI(citation)
           /\ TitleUsable(title)
           /\ \E response \in SearchResponses :
                LET res == Spread(searchCrossRef(title[1], citation.raw,
                                                 citation.index, response),
                                  [method |-> "title"])
                IN  /\ log' = Append(log, Lookup("citations", i, "title",
                                                  title[1], response))
                    /\ IF NeedsBiblio(Some(res))
                          /\ extractBiblio(citation.raw) # Null
                       THEN /\ result' = Some(res)
                            /\ pc' = "biblio"
                            /\ UNCHANGED <<citResults, progress>>
                       ELSE /\ result' = Null
                            /\ citResults' = Push(citResults, res)
                            /\ pc' = "sleepCitations"
                            /\ progress' =
                                   Append(progress,
                                          loopProgress(i, Len(unverifiedCitations)))
    /\ UNCHANGED <<selectedFile, i, doiResults, allResults, unverifiedCitations,
                   currentResults, hidden>>
    /\ UNCHANGED callVars

\* method 3: the bibliographic search, the choice between its result and
\* the title stage's, the push, up to the await of sleep
VerifyCitationsBiblio ==
    /\ \/ pc = "biblio"
       \/ /\ pc = "verifyCitations"
          /\ ~HasDOI(unverifiedCitations[i])
          /\ ~TitleUsable(extractTitle(unverifiedCitations[i].raw))
          /\ NeedsBiblio(result)
          /\ extractBiblio(unverifiedCitations[i].raw) # Null
    /\ LET citation == unverifiedCitations[i]
           biblio == extractBiblio(citation.raw)[1]
       IN  \E response \in SearchResponses :
             LET biblioResult == searchCrossRefBiblio(biblio, citation.raw,
                                                      citation.index, response)
             IN  /\ log' = Append(log, Lookup("citations", i, "biblio",
                                               biblioQuery(biblio), response))
                 /\ citResults' =
                        Push(citResults,
                             IF UseBiblio(result, biblioResult)
                             THEN biblioResult ELSE result[1])
    /\ result' = Null
    /\ pc' = "sleepCitations"
    /\ progress' = Append(progress, loopProgress(i, Len(unverifiedCitations)))
    /\ UNCHANGED <<selectedFile, i, doiResults, allResults, unverifiedCitations,
                   currentResults, hidden>>
    /\ UNCHANGED callVars

\* no stage gave a result: the push of the "could not extract" result
VerifyCitationsNoInfo ==
    /\ pc = "verifyCitations"
    /\ LET citation == unverifiedCitations[i]
       IN  /\ ~HasDOI(citation)
           /\ ~TitleUsable(extractTitle(citation.raw))
           /\ extractBiblio(citation.raw) = Null
           /\ citResults' = Push(citResults, NoInfoResult(citation))
    /\ pc' = "sleepCitations"
    /\ UNCHANGED <<selectedFile, i, doiResults, allResults, unverifiedCitations,
                   result, currentResults, hidden, log>>
    /\ progress' = Append(progress, loopProgress(i, Len(unverifiedCitations)))
    /\ UNCHANGED callVars

\* sleep(200) is over: the next turn, or the return to startVerification,
\* which renumbers the results and goes on to step 4
VerifyCitationsSleep ==
    /\ pc = "sleepCitations"
    /\ log' = Append(log, Sleep(200))
    /\ UNCHANGED progress
    /\ IF i < Len(unverifiedCitations)
       THEN /\ i' = i + 1
            /\ pc' = "verifyCitations"
            /\ UNCHANGED <<citResults, allResults, currentResults, hidden>>
       ELSE LET renumbered == Renumber(citResults, Len(allResults))
            IN  /\ citResults' = renumbered
                /\ Finish(allResults \o renumbered)
                /\ UNCHANGED i
    /\ UNCHANGED <<selectedFile, doiResults, unverifiedCitations, result>>
    /\ UNCHANGED callVars

Next ==
    \/ handleFileSelect
    \/ resetUpload
    \/ resetAll
    \/ filterClick
    \/ startVerification
    \/ ExtractText
    \/ VerifyDOIsLookup
    \/ VerifyDOIsSleep
    \/ VerifyCitationsDOI
    \/ VerifyCitationsTitle
    \/ VerifyCitationsBiblio
    \/ VerifyCitationsNoInfo
    \/ VerifyCitationsSleep

Spec == Init /\ [][Next]_vars

\* ================================================================ claims
\* the lookups of the run's history issued in `phase` for position k, in order
LookupsOf(phase, k) ==
    LET mine(e) == IF e.event = "lookup" THEN e.phase = phase /\ e.i = k ELSE FALSE
    IN  SelectSeq(log, mine)

KindsOf(phase, k) ==
    LET ls == LookupsOf(phase, k) IN [n \in DOMAIN ls |-> ls[n].kind]

Threw(e) == e.response.type = "reject"
Is404(e) == IF e.response.type = "response" THEN e.response.status = 404 ELSE FALSE
IsOk(e) == IF e.response.type = "response" THEN ResponseOk(e.response) ELSE FALSE
NoItems(e) == IF IsOk(e) THEN Len(e.response.data.message.items) = 0 ELSE FALSE
SomeItems(e) == IF IsOk(e) THEN Len(e.response.data.message.items) > 0 ELSE FALSE

\* some lookup of kind `kind` issued for citation k satisfies P
CitLookup(k, kind, P(_)) ==
    \E n \in DOMAIN log :
        IF log[n].event = "lookup"
        THEN log[n].phase = "citations" /\ log[n].i = k /\ log[n].kind = kind
                /\ P(log[n])
        ELSE FALSE

\* the same of the lookups ls, and the kinds of ls in order
Among(ls, kind, P(_)) == \E n \in DOMAIN ls : ls[n].kind = kind /\ P(ls[n])
Kinds(ls) == [n \in DOMAIN ls |-> ls[n].kind]

Populated(r) == IF Has(r, "error") THEN r.error # "" ELSE FALSE
Method(r) == IF Has(r, "method") THEN r.method ELSE UNDEFINED

RunEnded == pc = "idle" /\ ("results" \notin hidden \/ "error" \notin hidden)

WorkFields == {"title", "authors", "year", "journal"}

\* C1: every result of verifyDOIs and verifyCitations, at every point of
\* the run and under every combination of lookup outcomes, has a status
\* among Verified ("true"), NotFound ("false") and Indeterminate (null), and
\* has the resolved-work fields title, authors, year, journal if it is
\* Verified and none of them otherwise.
C1_StatusAndResolvedWork ==
    LET WellFormed(r) ==
            /\ r.valid \in {"true", "false", NULL}
            /\ IF r.valid = "true"
               THEN WorkFields \subseteq DOMAIN r
               ELSE WorkFields \cap DOMAIN r = {}
        AllWellFormed(rs) == \A k \in DOMAIN rs : WellFormed(rs[k])
    IN  /\ AllWellFormed(doiResults)
        /\ AllWellFormed(citResults)
        /\ AllWellFormed(allResults)
        /\ AllWellFormed(result)
        /\ currentResults # Null => AllWellFormed(currentResults[1])

\* C1 witness: a run has ended whose results hold all three statuses
C1_Witness ==
    /\ RunEnded
    /\ currentResults # Null
    /\ {currentResults[1][k].valid : k \in DOMAIN currentResults[1]}
            = {"true", "false", NULL}

\* C2 as claimed: a thrown exception in any lookup issued for a citation
\* makes the citation's final result Indeterminate with an error detail.
C2_Original ==
    \A k \in DOMAIN citResults :
        (\E e \in Range(LookupsOf("citations", k)) : Threw(e))
            => citResults[k].valid = NULL /\ Populated(citResults[k])

\* C2 as amended: an exception thrown by the DOI lookup, by the title search,
\* or by the bibliographic search of a citation that has no title-stage
\* result, makes the final result Indeterminate with a populated error
\* detail; an exception thrown by the bibliographic search that follows a
\* title search classified NotFound leaves the title stage's NotFound result
\* as the final result.  The same holds of the document-wide DOI lookups.
C2_ExceptionIsIndeterminate ==
    /\ \A k \in DOMAIN doiResults :
            (\E e \in Range(LookupsOf("dois", k)) : Threw(e))
                => doiResults[k].valid = NULL /\ Populated(doiResults[k])
    /\ \A k \in DOMAIN citResults :
            LET ls == LookupsOf("citations", k)
                kinds == Kinds(ls)
                final == citResults[k]
            IN  /\ (Among(ls, "doi", Threw) \/ Among(ls, "title", Threw))
                      => final.valid = NULL /\ Populated(final)
                /\ (Among(ls, "biblio", Threw) /\ kinds = <<"biblio">>)
                      => final.valid = NULL /\ Populated(final)
                /\ (Among(ls, "biblio", Threw) /\ kinds = <<"title", "biblio">>)
                      => /\ final.valid = "false"
                         /\ Method(final) = "title"
                         /\ Among(ls, "title", NoItems)

\* C2 witness: one citation whose title search threw and is Indeterminate,
\* another whose bibliographic search threw after a NotFound title search
C2_Witness ==
    /\ \E k \in DOMAIN citResults :
            CitLookup(k, "title", Threw) /\ citResults[k].valid = NULL
    /\ \E k \in DOMAIN citResults :
            /\ CitLookup(k, "title", NoItems)
            /\ CitLookup(k, "biblio", Threw)
            /\ citResults[k].valid = "false"

\* C3: verifyCitations (and verifyDOIs) never stops short and returns one
\* result per input, in input order: while the loop runs every turn can be
\* taken, each turn adds exactly one result, whatever the lookups did, the
\* k-th result is the k-th input's, and what the run shows ends with the
\* results of all the citations handed to verifyCitations.
C3_OneResultPerCitation ==
    /\ pc # "idle" => ENABLED Next
    /\ pc \in {"verifyCitations", "biblio"} => Len(citResults) = i - 1
    /\ pc = "sleepCitations" => Len(citResults) = i
    /\ pc = "verifyDOIs" => Len(doiResults) = i - 1
    /\ pc = "sleepDOIs" => Len(doiResults) = i
    /\ Len(citResults) <= Len(unverifiedCitations)
    /\ \A k \in DOMAIN citResults : citResults[k].raw = unverifiedCitations[k].raw
    /\ \A k \in DOMAIN doiResults : doiResults[k].raw = selectedFile[1].dois[k]
    /\ (RunEnded /\ Len(unverifiedCitations) > 0)
          => /\ Len(citResults) = Len(unverifiedCitations)
             /\ currentResults # Null
             /\ currentResults[1] = doiResults \o citResults

\* C3 witness: a run of two citations has ended; the first citation's
\* lookup threw, the second was verified all the same
C3_Witness ==
    /\ RunEnded
    /\ Len(unverifiedCitations) = 2
    /\ Len(citResults) = 2
    /\ \E e \in Range(LookupsOf("citations", 1)) : Threw(e)
    /\ citResults[1].valid = NULL
    /\ citResults[2].valid = "true"

\* C4: a run on non-blank text ends in a run-level failure (the error is
\* shown, no results) exactly if the document-wide sweep found no DOI and
\* the splitter no citation; otherwise it ends showing results, however the
\* lookups failed.
C4_RunLevelFailure ==
    (RunEnded /\ selectedFile[1].extract = "text")
        => LET nothing == Len(selectedFile[1].dois) = 0
                             /\ Len(selectedFile[1].citations) = 0
           IN  IF nothing
               THEN "error" \notin hidden /\ "results" \in hidden
                        /\ currentResults = Null
               ELSE "results" \notin hidden /\ "error" \in hidden
                        /\ currentResults # Null

\* C4 witness: a run has ended showing results although every lookup of it
\* failed and every result is Indeterminate
C4_Witness ==
    /\ RunEnded
    /\ "results" \notin hidden
    /\ currentResults # Null
    /\ Len(log) > 0
    /\ \A n \in DOMAIN log : log[n].event = "lookup" => ~IsOk(log[n])
    /\ \A k \in DOMAIN currentResults[1] : currentResults[1][k].valid = NULL

\* the result a DOI lookup of the history gave
DoiLookupResult(e) == IF e.phase = "dois" THEN doiResults[e.i] ELSE citResults[e.i]

DoiLookups == {n \in DOMAIN log : IF log[n].event = "lookup" THEN log[n].kind = "doi" ELSE FALSE}

\* C5 as claimed: a DOI lookup answered 404 gives a result with status
\* NotFound and method "doi".
C5_Original ==
    \A n \in DoiLookups :
        Is404(log[n]) => /\ DoiLookupResult(log[n]).valid = "false"
                         /\ Method(DoiLookupResult(log[n])) = "doi"

\* C5 as amended: a DOI lookup answered 404 gives a result with status
\* NotFound, the reason "DOI not found in CrossRef" and the DOI looked up,
\* and no method: verifyDOI sets the method "doi" on a Verified result only.
C5_NotFoundOn404 ==
    \A n \in DoiLookups :
        LET r == DoiLookupResult(log[n])
        IN  /\ Is404(log[n]) => /\ r.valid = "false"
                                /\ r.error = "DOI not found in CrossRef"
                                /\ r.doi = log[n].query
                                /\ ~Has(r, "method")
            /\ Has(r, "method") => r.valid = "true" /\ r.method = "doi"

\* C5 witness: a 404 on a document-wide DOI and a 404 on a citation's DOI
C5_Witness ==
    /\ \E n \in DoiLookups : Is404(log[n]) /\ log[n].phase = "dois"
    /\ \E n \in DoiLookups : Is404(log[n]) /\ log[n].phase = "citations"

\* the reasons of the code that contain "no matching", letter case aside
ReasonsWithNoMatching == {"No matching publication found in CrossRef"}

\* C6 as claimed: when the title search of a citation returns no candidate,
\* the citation's result is NotFound with a reason containing "no matching".
C6_Original ==
    \A k \in DOMAIN citResults :
        CitLookup(k, "title", NoItems)
            => /\ citResults[k].valid = "false"
               /\ Has(citResults[k], "error")
               /\ citResults[k].error \in ReasonsWithNoMatching

\* C6 as amended: when the title search of a citation returns no candidate,
\* the title stage's result is NotFound with the reason "No matching
\* publication found in CrossRef"; it is the citation's final result unless
\* a bibliographic search is then issued and yields Verified, in which case
\* the final result is the bibliographic stage's Verified result.
C6_TitleSearchEmpty ==
    /\ (pc = "biblio")
          => /\ CitLookup(i, "title", NoItems)
             /\ result # Null
             /\ result[1].valid = "false"
             /\ result[1].error \in ReasonsWithNoMatching
    /\ \A k \in DOMAIN citResults :
            LET ls == LookupsOf("citations", k)
            IN  Among(ls, "title", NoItems)
                => IF Among(ls, "biblio", SomeItems)
                   THEN /\ citResults[k].valid = "true"
                        /\ Method(citResults[k]) = "biblio"
                   ELSE /\ citResults[k].valid = "false"
                        /\ citResults[k].error \in ReasonsWithNoMatching
                        /\ Method(citResults[k]) = "title"

\* C6 witness: one citation whose empty title search stands as NotFound
\* after a bibliographic search that found nothing either, and one whose
\* empty title search was superseded by a Verified bibliographic result
C6_Witness ==
    /\ \E k \in DOMAIN citResults :
            /\ CitLookup(k, "title", NoItems)
            /\ CitLookup(k, "biblio", NoItems)
            /\ citResults[k].valid = "false"
    /\ \E k \in DOMAIN citResults :
            /\ CitLookup(k, "title", NoItems)
            /\ CitLookup(k, "biblio", SomeItems)
            /\ citResults[k].valid = "true"

\* C7: a citation from which a DOI is extracted is settled by the DOI lookup
\* alone: exactly one lookup is issued for it, the DOI lookup, never a title
\* or bibliographic search; 404 gives NotFound, another non-2xx response or
\* a thrown exception gives Indeterminate, a 2xx response gives Verified
\* with method "doi".
C7_DoiAlone ==
    \A k \in DOMAIN citResults :
        HasDOI(unverifiedCitations[k])
            => LET ls == LookupsOf("citations", k)
                   e == ls[1]
                   final == citResults[k]
               IN  /\ Kinds(ls) = <<"doi">>
                   /\ e.query = extractDOI(unverifiedCitations[k].raw)
                   /\ Is404(e) => final.valid = "false"
                   /\ (Threw(e) \/ (~IsOk(e) /\ ~Is404(e))) => final.valid = NULL
                   /\ IsOk(e) => final.valid = "true" /\ Method(final) = "doi"

\* C7 witness: a citation with a DOI, a usable title and a bibliographic
\* bundle whose DOI lookup was answered 404, and one whose DOI lookup threw
C7_Witness ==
    /\ \E k \in DOMAIN citResults :
            /\ HasDOI(unverifiedCitations[k])
            /\ TitleUsable(extractTitle(unverifiedCitations[k].raw))
            /\ extractBiblio(unverifiedCitations[k].raw) # Null
            /\ CitLookup(k, "doi", Is404)
            /\ citResults[k].valid = "false"
    /\ \E k \in DOMAIN citResults :
            CitLookup(k, "doi", Threw) /\ citResults[k].valid = NULL

\* C8: whenever the title search returns a candidate, the title stage
\* classifies the citation Verified and records the similarity, a percentage,
\* whatever its value, 0 included; that result is the citation's final one.
C8_TitleMatchVerified ==
    \A k \in DOMAIN citResults :
        LET ls == LookupsOf("citations", k)
        IN  Among(ls, "title", SomeItems)
            => /\ Kinds(ls) = <<"title">>
               /\ citResults[k].valid = "true"
               /\ Method(citResults[k]) = "title"
               /\ Has(citResults[k], "similarity")
               /\ citResults[k].similarity \in 0..100

\* C8 witness: Verified title results with the similarities 0 and 33
C8_Witness ==
    \A percent \in {0, 33} :
        \E k \in DOMAIN citResults :
            /\ CitLookup(k, "title", SomeItems)
            /\ citResults[k].valid = "true"
            /\ citResults[k].similarity = percent

\* C9: for a citation without a DOI, a bibliographic search that yields
\* Verified where the title stage did not (it classified NotFound, or was
\* not attempted) gives the final result, Verified with method "biblio";
\* when the bibliographic search does not yield Verified (it found nothing,
\* failed, or was not issued) and the title stage has a result, the final
\* result is the title stage's.
C9_BiblioPrecedence ==
    \A k \in DOMAIN citResults :
        LET ls == LookupsOf("citations", k)
            final == citResults[k]
            titled == \E n \in DOMAIN ls : ls[n].kind = "title"
        IN  ~HasDOI(unverifiedCitations[k])
              => /\ Among(ls, "biblio", SomeItems)
                    => /\ final.valid = "true"
                       /\ Method(final) = "biblio"
                       /\ ~Has(final, "searchedTitle")
                       /\ titled => Among(ls, "title", NoItems)
                 /\ (titled /\ ~Among(ls, "biblio", SomeItems))
                    => /\ Method(final) = "title"
                       /\ Has(final, "searchedTitle")
                       /\ final.searchedTitle = extractTitle(unverifiedCitations[k].raw)[1]
                       /\ Among(ls, "title", SomeItems) => final.valid = "true"
                       /\ Among(ls, "title", NoItems) => final.valid = "false"
                       /\ (~Among(ls, "title", IsOk)) => final.valid = NULL

\* C9 witness: a bibliographic Verified result that superseded a NotFound
\* title stage, and a NotFound title result that stood after a failed
\* bibliographic search
C9_Witness ==
    /\ \E k \in DOMAIN citResults :
            /\ KindsOf("citations", k) = <<"title", "biblio">>
            /\ CitLookup(k, "biblio", SomeItems)
            /\ Method(citResults[k]) = "biblio"
    /\ \E k \in DOMAIN citResults :
            /\ KindsOf("citations", k) = <<"title", "biblio">>
            /\ ~CitLookup(k, "biblio", IsOk)
            /\ Method(citResults[k]) = "title"
            /\ citResults[k].valid = "false"

\* no DOI, no title longer than 15 characters, no usable bibliographic bundle
NothingExtracted(citation) ==
    /\ extractDOI(citation.raw) = NULL
    /\ (extractTitle(citation.raw) = Null
            \/ StrLen(extractTitle(citation.raw)[1]) <= 15)
    /\ extractBiblio(citation.raw) = Null

\* C10: a citation from which no DOI, no title longer than 15 characters and
\* no usable bibliographic bundle is extracted gets the final result
\* Indeterminate with the reason "Could not extract DOI, title, or
\* bibliographic info", and no lookup is issued for it.
C10_NothingExtracted ==
    \A k \in DOMAIN citResults :
        NothingExtracted(unverifiedCitations[k])
            => /\ citResults[k].valid = NULL
               /\ Has(citResults[k], "error")
               /\ citResults[k].error
                      = "Could not extract DOI, title, or bibliographic info"
               /\ LookupsOf("citations", k) = <<>>

\* C10 witness: such a citation with a title of at most 15 characters has
\* been settled, after a citation for which a lookup was issued
C10_Witness ==
    \E k \in DOMAIN citResults :
        /\ k > 1
        /\ NothingExtracted(unverifiedCitations[k])
        /\ extractTitle(unverifiedCitations[k].raw) # Null
        /\ citResults[k].valid = NULL
        /\ LookupsOf("citations", k - 1) # <<>>

\* ================================================== regular expressions
\* A text is a sequence of characters (strings of length 1); positions are
\* 1-based here, offsets (JavaScript's) are 0-based: offset = position - 1.
\* A pattern is a sequence of items, matched as a backtracking matcher
\* does: leftmost, greedy, alternatives in order.
\*   set    one of (neg: none of) the characters of `set`, min to max times
\*          (max = -1: unbounded)
\*   group  (?:a|b|..){min,max}, each alternative a pattern
\*   not    (?!body), a negative lookahead
\*   bol    ^ with the m flag,   eol  $ without it,   wordb  \b
\*   open, close   the parentheses of the capture group 1
Upper == <<"A", "B", "C", "D", "E", "F", "G", "H", "I", "J", "K", "L", "M",
           "N", "O", "P", "Q", "R", "S", "T", "U", "V", "W", "X", "Y", "Z">>
Lower == <<"a", "b", "c", "d", "e", "f", "g", "h", "i", "j", "k", "l", "m",
           "n", "o", "p", "q", "r", "s", "t", "u", "v", "w", "x", "y", "z">>
Digits == <<"0", "1", "2", "3", "4", "5", "6", "7", "8", "9">>
AZ == {Upper[k] : k \in DOMAIN Upper}
az == {Lower[k] : k \in DOMAIN Lower}
D09 == {Digits[k] : k \in DOMAIN Digits}
WhiteSpace == {" ", "\n", "\t"}
WordChars == AZ \cup az \cup D09 \cup {"_"}

\* both cases of a letter, for the i flag
BothCases(c) ==
    {c} \cup {Lower[k] : k \in {n \in DOMAIN Upper : Upper[n] = c}}
        \cup {Upper[k] : k \in {n \in DOMAIN Lower : Lower[n] = c}}

One(S) == [t |-> "set", set |-> S, neg |-> FALSE, min |-> 1, max |-> 1]
NoneOf(S) == [t |-> "set", set |-> S, neg |-> TRUE, min |-> 1, max |-> 1]
Times(item, min, max) == [item EXCEPT !.min = min, !.max = max]
Star(item) == Times(item, 0, -1)
Plus(item) == Times(item, 1, -1)
Opt(item) == Times(item, 0, 1)
Lit(chars) == [k \in DOMAIN chars |-> One({chars[k]})]
LitI(chars) == [k \in DOMAIN chars |-> One(BothCases(chars[k]))]
Group(alts, min, max) == [t |-> "group", alts |-> alts, min |-> min, max |-> max]
NotAhead(body) == [t |-> "not", body |-> body]
Bol == [t |-> "bol"]
Bos == [t |-> "bos"]
Eol == [t |-> "eol"]
WordB == [t |-> "wordb"]
Open == [t |-> "open"]
Close == [t |-> "close"]

Min(S) == CHOOSE x \in S : \A y \in S : x <= y
Max(S) == 0 - Min({0 - x : x \in S})

InSet(item, c) == IF item.neg THEN c \notin item.set ELSE c \in item.set

\* the length of the longest run of characters of the item's set at pos
RunLength(item, text, pos) ==
    LET last == IF item.max = -1 \/ pos + item.max - 1 > Len(text)
                THEN Len(text) ELSE pos + item.max - 1
        stops == {j \in pos..last : ~InSet(item, text[j])}
    IN  IF stops = {} THEN last + 1 - pos ELSE Min(stops) - pos

IsWordAt(text, pos) ==
    IF pos >= 1 /\ pos <= Len(text) THEN text[pos] \in WordChars ELSE FALSE

Fail == <<>>

\* the first of two results that is a match
OrElse(a, b) == IF a # Fail THEN a ELSE b

\* of the tries <<-count, result>> of a repeated item, the result of the
\* greatest count that is a match: repetition is greedy
Greediest(tries) ==
    IF \A x \in tries : x[2] = Fail THEN Fail
    ELSE (CHOOSE x \in tries :
              x[2] # Fail /\ \A y \in tries : y[2] # Fail => x[1] <= y[1])[2]

\* Match(items, text, pos, caps): the match of the pattern `items` that
\* starts at position pos, as <<end, open, close>> (end: the position after
\* the match; open, close: the capture group's span), or Fail
RECURSIVE Match(_, _, _, _)
RECURSIVE MatchAlts(_, _, _, _, _, _)
Match(items, text, pos, caps) ==
    IF items = <<>> THEN <<pos, caps[1], caps[2]>>
    ELSE LET it == Head(items)
             rest == Tail(items)
         IN  CASE it.t = "set" ->
                    IF it.min = 1 /\ it.max = 1
                    THEN IF pos <= Len(text)
                         THEN IF InSet(it, text[pos])
                              THEN Match(rest, text, pos + 1, caps)
                              ELSE Fail
                         ELSE Fail
                    ELSE Greediest({<<0 - c, Match(rest, text, pos + c, caps)>> :
                                       c \in it.min..RunLength(it, text, pos)})
               [] it.t = "group" ->
                    OrElse(IF it.max = 0 THEN Fail
                           ELSE MatchAlts(it, 1, rest, text, pos, caps),
                           IF it.min <= 0 THEN Match(rest, text, pos, caps)
                           ELSE Fail)
               [] it.t = "not" ->
                    IF Match(it.body, text, pos, caps) = Fail
                    THEN Match(rest, text, pos, caps) ELSE Fail
               [] it.t = "bol" ->
                    IF pos = 1 THEN Match(rest, text, pos, caps)
                    ELSE IF text[pos - 1] = "\n" THEN Match(rest, text, pos, caps)
                    ELSE Fail
               [] it.t = "bos" ->
                    IF pos = 1 THEN Match(rest, text, pos, caps) ELSE Fail
               [] it.t = "eol" ->
                    IF pos = Len(text) + 1 THEN Match(rest, text, pos, caps) ELSE Fail
               [] it.t = "wordb" ->
                    IF IsWordAt(text, pos - 1) # IsWordAt(text, pos)
                    THEN Match(rest, text, pos, caps) ELSE Fail
               [] it.t = "open" -> Match(rest, text, pos, <<pos, caps[2]>>)
               [] it.t = "close" -> Match(rest, text, pos, <<caps[1], pos>>)

\* the group `it` with one turn taken
OneLess(it) ==
    [it EXCEPT !.min = IF it.min > 0 THEN it.min - 1 ELSE 0,
               !.max = IF it.max = -1 THEN -1 ELSE it.max - 1]

\* one more turn of the group `it`, its alternatives from the k-th on
MatchAlts(it, k, rest, text, pos, caps) ==
    IF k > Len(it.alts) THEN Fail
    ELSE OrElse(Match(it.alts[k] \o <<OneLess(it)>> \o rest, text, pos, caps),
                MatchAlts(it, k + 1, rest, text, pos, caps))

\* RegExp.prototype.exec from the 0-based offset `from`: the leftmost match,
\* as <<start, end, open, close>> in positions, or Fail
\* the match that starts at s, with its start
StartedAt(s, at(_)) == <<s>> \o at(s)

\* the match at(s) of the least position s of `starts` that has one
Leftmost(starts, at(_)) ==
    IF \E s \in starts : at(s) # Fail
    THEN StartedAt(CHOOSE s \in starts :
                       at(s) # Fail /\ \A t \in starts : t < s => at(t) = Fail,
                   at)
    ELSE Fail

Exec(pattern, text, from) ==
    Leftmost((from + 1)..(Len(text) + 1),
             LAMBDA s : Match(pattern, text, s, <<0, 0>>))

\* the 0-based offset of a match, -1 of none
OffsetOf(m) == IF m = Fail THEN -1 ELSE m[1] - 1

\* String.prototype.search: the offset of the leftmost match, or -1
Search(pattern, text) == OffsetOf(Exec(pattern, text, 0))

\* String.prototype.substring(from) and substring(from, to), on offsets
Substring(text, from, to) ==
    LET a == IF from < 0 THEN 0 ELSE IF from > Len(text) THEN Len(text) ELSE from
        b == IF to < 0 THEN 0 ELSE IF to > Len(text) THEN Len(text) ELSE to
    IN  IF a <= b THEN SubSeq(text, a + 1, b) ELSE SubSeq(text, b + 1, a)
SubstringFrom(text, from) == Substring(text, from, Len(text))

\* ------------------------------------------------- findReferencesSection
NL == <<"\n">>
SP == <<" ">>
Ws == One(WhiteSpace)

startPatterns ==
    << Lit(NL) \o <<Star(Ws)>> \o LitI(<<"R","e","f","e","r","e","n","c","e">>)
          \o <<Opt(One(BothCases("s"))), Star(Ws)>> \o Lit(NL),
       Lit(NL) \o <<Star(Ws)>> \o LitI(<<"B","i","b","l","i","o","g","r","a","p","h","y">>)
          \o <<Star(Ws)>> \o Lit(NL),
       Lit(NL) \o <<Star(Ws)>> \o LitI(<<"R","E","F","E","R","E","N","C","E">>)
          \o <<Opt(One(BothCases("S"))), Star(Ws)>> \o Lit(NL),
       Lit(NL) \o <<Star(Ws)>> \o LitI(<<"W","o","r","k">>) \o <<Opt(One(BothCases("s"))), Plus(Ws)>>
          \o LitI(<<"C","i","t","e","d">>) \o <<Star(Ws)>> \o Lit(NL),
       Lit(NL) \o <<Star(Ws)>> \o LitI(<<"L","i","t","e","r","a","t","u","r","e">>) \o <<Plus(Ws)>>
          \o LitI(<<"C","i","t","e","d">>) \o <<Star(Ws)>> \o Lit(NL),
       Lit(NL) \o <<Star(Ws)>> \o LitI(<<"C","i","t","e","d">>) \o <<Plus(Ws)>>
          \o LitI(<<"R","e","f","e","r","e","n","c","e">>)
          \o <<Opt(One(BothCases("s"))), Star(Ws)>> \o Lit(NL) >>

endPatterns ==
    << Lit(NL) \o <<Star(Ws)>> \o LitI(<<"A","p","p","e","n","d","i","x">>),
       Lit(NL) \o <<Star(Ws)>> \o LitI(<<"A","P","P","E","N","D","I","X">>),
       Lit(NL) \o <<Star(Ws)>> \o LitI(<<"F","u","r","t","h","e","r">>) \o <<Plus(Ws)>>
          \o LitI(<<"r","e","a","d","i","n","g">>),
       Lit(NL) \o <<Star(Ws)>> \o LitI(<<"S","u","p","p","l","e","m","e","n","t","a","r","y">>),
       Lit(NL) \o <<Star(Ws)>> \o LitI(<<"A","c","k","n","o","w","l","e","d","g","m","e","n","t">>),
       Lit(NL) \o <<Star(Ws)>> \o LitI(<<"A","u","t","h","o","r">>) \o <<Plus(Ws)>>
          \o LitI(<<"c","o","n","t","r","i","b","u","t","i","o","n","s">>),
       Lit(NL) \o <<Star(Ws)>> \o LitI(<<"D","a","t","a">>) \o <<Plus(Ws)>>
          \o LitI(<<"a","v","a","i","l","a","b","i","l","i","t","y">>),
       Lit(NL) \o <<Star(Ws)>> \o LitI(<<"C","o","n","f","l","i","c","t">>) \o <<Plus(Ws)>>
          \o LitI(<<"o","f">>) \o <<Plus(Ws)>>
          \o LitI(<<"i","n","t","e","r","e","s","t">>),
       Lit(NL) \o <<Star(Ws)>> \o LitI(<<"E","x","t","e","n","d","e","d">>) \o <<Plus(Ws)>>
          \o LitI(<<"D","a","t","a">>) >>

\* /\n\s*1\.\s+[A-Z][a-z]+/
numberedPattern ==
    Lit(NL) \o <<Star(Ws)>> \o Lit(<<"1", ".">>) \o <<Plus(Ws), One(AZ), Plus(One(az))>>

\* for (const pattern of patterns) { const match = text.search(pattern);
\* if (match !== -1) { ...; break; } }: the offset found, or -1
\* variant of FirstFound: the least of the offsets found, whichever
\* pattern found it
FirstFound_earliest(offsets) ==
    IF \A k \in DOMAIN offsets : offsets[k] = -1 THEN -1
    ELSE Min({offsets[k] : k \in {n \in DOMAIN offsets : offsets[n] # -1}})

FirstFound(offsets) ==
    IF \A k \in DOMAIN offsets : offsets[k] = -1 THEN -1
    ELSE offsets[Min({k \in DOMAIN offsets : offsets[k] # -1})]

FirstSearch(patterns, text) ==
    FirstFound([k \in DOMAIN patterns |-> Search(patterns[k], text)])

\* variant of tailOffset: the last 30%, as in src/app.js
tailOffset_last30(text) == (7 * Len(text)) \div 10

\* Math.floor(text.length * 0.6).  The product is taken exactly: the double
\* nearest to 0.6, times a length, rounds to a double with the same floor.
tailOffset(text) == (6 * Len(text)) \div 10

\* variant of inBackHalf: a first numbered reference is used wherever it is
inBackHalf_anywhere(numberedStart, text) == numberedStart # -1

\* numberedStart !== -1 && numberedStart > text.length * 0.5
inBackHalf(numberedStart, text) ==
    numberedStart # -1 /\ 2 * numberedStart > Len(text)

\* let refsStart = header found ? its offset : numbered start in the back
\* half ? that offset : -1
refsStartOf(header, numberedStart, text) ==
    IF header # -1 THEN header
    ELSE IF inBackHalf(numberedStart, text) THEN numberedStart
    ELSE -1

\* variant of cutAtEnd: the text is cut at the offset the end marker has in
\* the searched part, the 100 skipped characters not counted
cutAtEnd_atMatch(refsText, endMatch) ==
    IF endMatch # -1 THEN Substring(refsText, 0, endMatch) ELSE refsText

\* if (endMatch !== -1) refsText = refsText.substring(0, endMatch + 100)
cutAtEnd(refsText, endMatch) ==
    IF endMatch # -1 THEN Substring(refsText, 0, endMatch + 100) ELSE refsText

\* variant of referencesUpToEnd: the end markers are searched from the
\* start of the section on, its first 100 characters not skipped
referencesUpToEnd_fromStart(refsText) ==
    cutAtEnd_atMatch(refsText, FirstSearch(endPatterns, refsText))

\* the end markers are searched in refsText.substring(100)
referencesUpToEnd(refsText) ==
    cutAtEnd(refsText, FirstSearch(endPatterns, SubstringFrom(refsText, 100)))

\* if (refsStart === -1) return the tail; else the section from refsStart
sectionFrom(text, refsStart) ==
    IF refsStart = -1
    THEN SubstringFrom(text, tailOffset(text))
    ELSE referencesUpToEnd(SubstringFrom(text, refsStart))

findReferencesSection(text) ==
    sectionFrom(text, refsStartOf(FirstSearch(startPatterns, text),
                                  Search(numberedPattern, text), text))

\* ------------------------------------------- documents and the segmenter
\* A document is a text made of at most MaxPieces pieces: a run of body
\* text, a section header, a first numbered reference, a section-end marker;
\* an appendix may follow them.
MaxPieces == 3

Fill(c, n) == [k \in 1..n |-> c]

BodyText == Fill("x", 150)
HeaderReferences == NL \o <<"R","e","f","e","r","e","n","c","e","s">> \o NL
HeaderBibliography ==
    NL \o <<"B","I","B","L","I","O","G","R","A","P","H","Y">> \o SP \o NL
\* (a first reference with its text, 100 characters in all)
NumberedReference ==
    NL \o <<"1", ".", " ", "S","m","i","t","h", ",", " ", "J", ".">> \o Fill("x", 87)
MarkerAppendix == NL \o <<"A","p","p","e","n","d","i","x">>
MarkerAcknowledgments ==
    NL \o SP \o <<"A","c","k","n","o","w","l","e","d","g","m","e","n","t","s">>

Pieces ==
    {BodyText, HeaderReferences, HeaderBibliography, NumberedReference,
     MarkerAppendix, MarkerAcknowledgments}

RECURSIVE TextsOf(_, _)
TextsOf(pieces, n) ==
    IF n = 0 THEN {<<>>}
    ELSE LET shorter == TextsOf(pieces, n - 1)
         IN  shorter \cup {d \o p : d \in shorter, p \in pieces}

Endings == {<<>>, MarkerAppendix}

\* the texts startVerification passes on: those with text.trim() not empty
Documents ==
    {d \o e : d \in TextsOf(Pieces, MaxPieces), e \in Endings} \ {<<>>}

\* one call of findReferencesSection on a document
InitSegmenter ==
    /\ NoRun
    /\ input \in {Some(d) : d \in Documents}
    /\ output = Null
    /\ called = ""
    /\ lastIndex = <<0, 0, 0>>

CallFindReferencesSection ==
    /\ input # Null
    /\ output = Null
    /\ output' = Some(findReferencesSection(input[1]))
    /\ called' = "findReferencesSection"
    /\ UNCHANGED <<input, lastIndex, runVars>>

NextSegmenter == CallFindReferencesSection

SpecSegmenter == InitSegmenter /\ [][NextSegmenter]_vars

\* ------------------------------------------------ claims on the segmenter
\* the offsets at which a pattern of the list matches
OffsetsOf(patterns, text) ==
    {s - 1 : s \in {p \in 1..(Len(text) + 1) :
                      \E k \in DOMAIN patterns :
                          Match(patterns[k], text, p, <<0, 0>>) # Fail}}

IsSuffixFrom(sub, text, offset) ==
    offset \in 0..Len(text) /\ sub = SubSeq(text, offset + 1, Len(text))

\* the part of text from offset `from`, of length n
IsPartFrom(sub, text, from, n) ==
    from + n <= Len(text) /\ sub = SubSeq(text, from + 1, from + n)

\* C11: for every non-empty text findReferencesSection returns a non-empty
\* string, whether it starts at a header, at a first numbered reference or
\* at the last 40%, and whether or not it is cut at a section-end marker.
C11_NonEmptySection ==
    (input # Null /\ output # Null /\ Len(input[1]) > 0) => Len(output[1]) > 0

\* C11 witness: a document with a header and, more than 100 characters
\* after it, a section-end marker, for which the call returned the text
\* from the header up to the marker
C11_Witness ==
    /\ input # Null
    /\ output # Null
    /\ Len(output[1]) >= 100
    /\ \E from \in OffsetsOf(startPatterns, input[1]) :
          /\ IsPartFrom(output[1], input[1], from, Len(output[1]))
          /\ from + Len(output[1]) < Len(input[1])
          /\ from + Len(output[1]) \in OffsetsOf(endPatterns, input[1])

\* C12 as claimed: for a document in which no section header matches, the
\* call returns a non-empty suffix of the document, at least 40% of it long.
C12_Original ==
    (input # Null /\ output # Null /\ OffsetsOf(startPatterns, input[1]) = {})
        => /\ \E offset \in 0..Len(input[1]) : IsSuffixFrom(output[1], input[1], offset)
           /\ Len(output[1]) > 0
           /\ 10 * Len(output[1]) >= 4 * Len(input[1])

\* C12 as amended: for a document in which no section header matches, if
\* the first numbered reference is absent or not past the middle, the call
\* returns the suffix that starts at floor(0.6 * length), non-empty and at
\* least 40% of the document long; if the first numbered reference is past
\* the middle, the call returns the text from there, less than half of the
\* document, up to the document's end or, when the text from there is cut
\* at a section-end marker, at least 100 characters up to that marker.
C12_NoHeaderSection ==
    (input # Null /\ output # Null /\ OffsetsOf(startPatterns, input[1]) = {})
        => LET text == input[1]
               sub == output[1]
               numbered == OffsetsOf(<<numberedPattern>>, text)
               first == Min(numbered)
           IN  IF numbered = {} \/ 2 * first <= Len(text)
               THEN /\ IsSuffixFrom(sub, text, (6 * Len(text)) \div 10)
                    /\ Len(sub) > 0
                    /\ 10 * Len(sub) >= 4 * Len(text)
               ELSE /\ IsPartFrom(sub, text, first, Len(sub))
                    /\ Len(sub) > 0
                    /\ 2 * Len(sub) < Len(text)
                    /\ \/ first + Len(sub) = Len(text)
                       \/ /\ Len(sub) >= 100
                          /\ first + Len(sub) \in OffsetsOf(endPatterns, text)

\* C12 witness: a document without header whose first numbered reference is
\* past the middle, for which the call returned a part that is no suffix
\* and less than 40% of the document
C12_Witness ==
    /\ input # Null
    /\ output # Null
    /\ OffsetsOf(startPatterns, input[1]) = {}
    /\ OffsetsOf(<<numberedPattern>>, input[1]) # {}
    /\ 10 * Len(output[1]) < 4 * Len(input[1])
    /\ \A offset \in 0..Len(input[1]) : ~IsSuffixFrom(output[1], input[1], offset)

\* C20: findReferencesSection picks its start offset by strict priority.
\* If a section header matches, the returned text starts at a header match.
\* If none matches and the first numbered reference lies past the middle of
\* the text, it starts at that first numbered reference.  Otherwise it is
\* the suffix that starts at floor(0.6 * length): the last 40%.
C20_StartPriority ==
    (input # Null /\ output # Null)
        => LET text == input[1]
               sub == output[1]
               headers == OffsetsOf(startPatterns, text)
               numbered == OffsetsOf(<<numberedPattern>>, text)
           IN  IF headers # {}
               THEN \E start \in headers : IsPartFrom(sub, text, start, Len(sub))
               ELSE IF numbered = {} THEN IsSuffixFrom(sub, text, (6 * Len(text)) \div 10)
               ELSE IF 2 * Min(numbered) > Len(text)
               THEN IsPartFrom(sub, text, Min(numbered), Len(sub))
               ELSE IsSuffixFrom(sub, text, (6 * Len(text)) \div 10)

\* C20 witness: a document whose first numbered reference is past the
\* middle and followed by a section header: the returned text starts at the
\* header, not at the numbered reference
C20_Witness ==
    /\ input # Null
    /\ output # Null
    /\ LET text == input[1]
           headers == OffsetsOf(startPatterns, text)
           numbered == OffsetsOf(<<numberedPattern>>, text)
       IN  /\ headers # {}
           /\ numbered # {}
           /\ 2 * Min(numbered) > Len(text)
           /\ Min(numbered) < Min(headers)
           /\ IsSuffixFrom(output[1], text, Min(headers))

\* the first pattern of the list, in declared order, that matches somewhere
FirstMatching(patterns, text) ==
    Min({k \in DOMAIN patterns : OffsetsOf(<<patterns[k]>>, text) # {}})

\* C21 as claimed: when section-header patterns match in the text, the
\* returned text starts at the earliest offset at which any of them matches.
C21_Original ==
    (input # Null /\ output # Null /\ OffsetsOf(startPatterns, input[1]) # {})
        => IsPartFrom(output[1], input[1],
                      Min(OffsetsOf(startPatterns, input[1])), Len(output[1]))

\* C21 as amended: when section-header patterns match in the text, the
\* returned text starts at the leftmost match of the first pattern, in
\* declared order, that matches anywhere in the text, also when a later
\* pattern of the list matches at an earlier offset.
C21_DeclaredOrder ==
    (input # Null /\ output # Null /\ OffsetsOf(startPatterns, input[1]) # {})
        => IsPartFrom(output[1], input[1],
                      Min(OffsetsOf(<<startPatterns[FirstMatching(startPatterns,
                                                                 input[1])]>>,
                                    input[1])),
                      Len(output[1]))

\* C21 witness: a document in which "Bibliography" comes before
\* "References": the returned text starts at "References", the match of the
\* first pattern of the list, after the earliest header match
C21_Witness ==
    /\ input # Null
    /\ output # Null
    /\ OffsetsOf(startPatterns, input[1]) # {}
    /\ OffsetsOf(<<startPatterns[1]>>, input[1]) # {}
    /\ OffsetsOf(<<startPatterns[2]>>, input[1]) # {}
    /\ Min(OffsetsOf(<<startPatterns[2]>>, input[1]))
          < Min(OffsetsOf(<<startPatterns[1]>>, input[1]))
    /\ IsPartFrom(output[1], input[1],
                  Min(OffsetsOf(<<startPatterns[1]>>, input[1])), Len(output[1]))
    /\ ~IsPartFrom(output[1], input[1],
                   Min(OffsetsOf(startPatterns, input[1])), Len(output[1]))

\* the start offset found from a header or from the first numbered
\* reference past the middle, -1 when neither gives one
StartFound(text) ==
    IF OffsetsOf(startPatterns, text) # {}
    THEN Min(OffsetsOf(<<startPatterns[FirstMatching(startPatterns, text)]>>,
                       text))
    ELSE IF OffsetsOf(<<numberedPattern>>, text) = {} THEN -1
    ELSE IF 2 * Min(OffsetsOf(<<numberedPattern>>, text)) > Len(text)
    THEN Min(OffsetsOf(<<numberedPattern>>, text))
    ELSE -1

\* the offsets, `from` or later, at which a pattern of the list matches
OffsetsFrom(patterns, text, from) ==
    {m \in OffsetsOf(patterns, text) : m >= from}

\* the first pattern of the list, in declared order, that matches at
\* offset `from` or later
FirstMatchingFrom(patterns, text, from) ==
    Min({k \in DOMAIN patterns : OffsetsFrom(<<patterns[k]>>, text, from) # {}})

\* C22 as claimed: once a start offset is found, the returned text runs from
\* it to the earliest section-end marker, of any pattern, that occurs 100
\* characters or more past the start, and to the end of the document when
\* no marker occurs there.
C22_Original ==
    (input # Null /\ output # Null)
        => LET text == input[1]
               start == StartFound(text)
               ends == OffsetsFrom(endPatterns, text, start + 100)
           IN  IF start = -1 THEN TRUE
               ELSE IF ends = {} THEN IsSuffixFrom(output[1], text, start)
               ELSE IsPartFrom(output[1], text, start, Min(ends) - start)

\* C22 as amended: once a start offset is found, the returned text runs from
\* it to the leftmost match, 100 characters or more past the start, of the
\* first section-end pattern in declared order that matches there, also
\* when a marker of a later pattern occurs earlier; it runs to the end of
\* the document when no marker occurs there.
C22_DeclaredOrder ==
    (input # Null /\ output # Null)
        => LET text == input[1]
               start == StartFound(text)
               ends == OffsetsFrom(endPatterns, text, start + 100)
               first == FirstMatchingFrom(endPatterns, text, start + 100)
           IN  IF start = -1 THEN TRUE
               ELSE IF ends = {} THEN IsSuffixFrom(output[1], text, start)
               ELSE IsPartFrom(output[1], text, start,
                               Min(OffsetsFrom(<<endPatterns[first]>>, text,
                                               start + 100)) - start)

\* C22 witness: a section with "Acknowledgments" and, after it, "Appendix",
\* both 100 characters or more past its start: the returned text is cut at
\* "Appendix", the marker of the first pattern, and holds "Acknowledgments"
C22_Witness ==
    /\ input # Null
    /\ output # Null
    /\ LET text == input[1]
           start == StartFound(text)
           ends == OffsetsFrom(endPatterns, text, start + 100)
           appendix == OffsetsFrom(<<endPatterns[1]>>, text, start + 100)
       IN  IF start = -1 THEN FALSE
           ELSE IF appendix = {} THEN FALSE
           ELSE /\ Min(ends) < Min(appendix)
                /\ IsPartFrom(output[1], text, start, Min(appendix) - start)

\* ------------------------------------------------------ string functions
\* String.prototype.match with the g flag: the matches from left to right,
\* each as <<start, end>> in positions; the next search starts where the
\* last match ended (one further after an empty match)
RECURSIVE MatchAllFrom(_, _, _)
RECURSIVE MatchAllAfter(_, _, _)
MatchAllFrom(pattern, text, from) ==
    MatchAllAfter(pattern, text, Exec(pattern, text, from))
\* the match m, and the matches after it
MatchAllAfter(pattern, text, m) ==
    IF m = Fail THEN <<>>
    ELSE <<<<m[1], m[2]>>>>
            \o MatchAllFrom(pattern, text,
                            IF m[2] = m[1] THEN m[2] ELSE m[2] - 1)
MatchAll(pattern, text) == MatchAllFrom(pattern, text, 0)

\* the matched strings
Matched(text, spans) ==
    [k \in DOMAIN spans |-> SubSeq(text, spans[k][1], spans[k][2] - 1)]

\* RegExp.prototype.test
Test(pattern, text) == Exec(pattern, text, 0) # Fail

\* the text without the span of the match m
Without(text, m) ==
    IF m = Fail THEN text
    ELSE SubSeq(text, 1, m[1] - 1) \o SubSeq(text, m[2], Len(text))

\* String.prototype.replace(pattern, '') without the g flag
RemoveFirst(pattern, text) == Without(text, Exec(pattern, text, 0))

\* the characters at the positions `kept`, white space as a blank
Blanked(text, kept) ==
    [n \in DOMAIN kept |->
        IF text[kept[n]] \in WhiteSpace THEN " " ELSE text[kept[n]]]

\* String.prototype.replace(/\s+/g, ' ')
CollapseWhiteSpace(text) ==
    Blanked(text,
            SelectSeq([k \in DOMAIN text |-> k],
                      LAMBDA k : IF text[k] \notin WhiteSpace THEN TRUE
                                 ELSE IF k = 1 THEN TRUE
                                 ELSE text[k - 1] \notin WhiteSpace))

\* the text from the first to the last of the positions `inked`
Between(text, inked) ==
    IF inked = {} THEN <<>> ELSE SubSeq(text, Min(inked), Max(inked))

\* String.prototype.trim
Trim(text) == Between(text, {k \in DOMAIN text : text[k] \notin WhiteSpace})

\* parseInt of a string of digits
DigitValue(c) == (CHOOSE k \in DOMAIN Digits : Digits[k] = c) - 1
RECURSIVE ParseInt(_)
ParseInt(digits) ==
    IF digits = <<>> THEN 0
    ELSE 10 * ParseInt(SubSeq(digits, 1, Len(digits) - 1))
            + DigitValue(digits[Len(digits)])

\* ----------------------------------------------------------- cleanCitation
\* if (cleaned.length > 500) cleaned = cleaned.substring(0, 500)
cutAt500(cleaned) ==
    IF Len(cleaned) > 500 THEN Substring(cleaned, 0, 500) ELSE cleaned

\* return cleaned.length > 10 ? cleaned : null
longEnough(cleaned) == IF Len(cleaned) > 10 THEN Some(cleaned) ELSE Null

\* variant of cleanCitation: the text is not cut at 500 characters
cleanCitation_uncut(text) ==
    IF text = <<>> THEN Null
    ELSE longEnough(Trim(CollapseWhiteSpace(text)))

\* Null, or Some(the cleaned text)
cleanCitation(text) ==
    IF text = <<>> THEN Null
    ELSE longEnough(cutAt500(Trim(CollapseWhiteSpace(text))))

\* ------------------------------------------------------- looksLikeCitation
\* /\b(19|20)\d{2}\b/
yearPattern ==
    <<WordB, Group(<<Lit(<<"1","9">>), Lit(<<"2","0">>)>>, 1, 1),
      Times(One(D09), 2, 2), WordB>>

\* /[A-Z]\.|[A-Z][a-z]+,/
authorPattern ==
    <<Group(<< <<One(AZ)>> \o Lit(<<".">>),
               <<One(AZ), Plus(One(az))>> \o Lit(<<",">>) >>, 1, 1)>>

\* /^(Theorem|Lemma|Proof|Definition|Appendix|Figure|Table)\b/i
headingPattern ==
    <<Bos,
      Group(<<LitI(<<"T","h","e","o","r","e","m">>), LitI(<<"L","e","m","m","a">>), LitI(<<"P","r","o","o","f">>),
              LitI(<<"D","e","f","i","n","i","t","i","o","n">>), LitI(<<"A","p","p","e","n","d","i","x">>), LitI(<<"F","i","g","u","r","e">>),
              LitI(<<"T","a","b","l","e">>)>>, 1, 1),
      WordB>>

looksLikeCitation(text) ==
    IF ~Test(yearPattern, text) THEN FALSE
    ELSE IF ~Test(authorPattern, text) THEN FALSE
    ELSE IF Len(text) < 30 \/ Len(text) > 1000 THEN FALSE
    ELSE IF Test(headingPattern, text) THEN FALSE
    ELSE TRUE

\* ---------------------------------------------------------- parseCitations
\* /\[\d+\][^\[]+/g
bracketPattern ==
    Lit(<<"[">>) \o <<Plus(One(D09))>> \o Lit(<<"]">>) \o <<Plus(NoneOf({"["}))>>
\* /\[(\d+)\]/
bracketNumber == Lit(<<"[">>) \o <<Open, Plus(One(D09)), Close>> \o Lit(<<"]">>)
\* /\[\d+\]\s*/
bracketMarker == Lit(<<"[">>) \o <<Plus(One(D09))>> \o Lit(<<"]">>) \o <<Star(Ws)>>

\* /(?:^|\n)\s*(\d{1,3})\.\s+[A-Z][^\n]+(?:\n(?!\s*\d{1,3}\.)[^\n]+)*/gm
dotPattern ==
    <<Group(<< <<Bol>>, Lit(NL) >>, 1, 1), Star(Ws),
      Open, Times(One(D09), 1, 3), Close>> \o Lit(<<".">>)
      \o <<Plus(Ws), One(AZ), Plus(NoneOf({"\n"})),
           Group(<< Lit(NL)
                    \o <<NotAhead(<<Star(Ws), Times(One(D09), 1, 3)>> \o Lit(<<".">>)),
                         Plus(NoneOf({"\n"}))>> >>, 0, -1)>>
\* /(\d{1,3})\./
dotNumber == <<Open, Times(One(D09), 1, 3), Close>> \o Lit(<<".">>)
\* /^\s*\d{1,3}\.\s*/
dotMarker == <<Bos, Star(Ws), Times(One(D09), 1, 3)>> \o Lit(<<".">>) \o <<Star(Ws)>>

\* /[A-Z][a-z]+(?:,?\s+[A-Z]\.?(?:\s*[A-Z]\.?)*|\s+et\s+al\.)[^(]{10,200}\(\d{4}\)/g
etAlPattern ==
    <<One(AZ), Plus(One(az)),
      Group(<< <<Opt(One({","})), Plus(Ws), One(AZ), Opt(One({"."})),
                 Group(<< <<Star(Ws), One(AZ), Opt(One({"."}))>> >>, 0, -1)>>,
               <<Plus(Ws)>> \o Lit(<<"e","t">>) \o <<Plus(Ws)>> \o Lit(<<"a","l",".">>) >>, 1, 1),
      Times(NoneOf({"("}), 10, 200)>>
      \o Lit(<<"(">>) \o <<Times(One(D09), 4, 4)>> \o Lit(<<")">>)

\* /[A-Z][a-z]+,?\s+[A-Z]\.?[^.]*\(\d{4}\)[^.]*\./g
authorYearPattern ==
    <<One(AZ), Plus(One(az)), Opt(One({","})), Plus(Ws), One(AZ),
      Opt(One({"."})), Star(NoneOf({"."}))>>
      \o Lit(<<"(">>) \o <<Times(One(D09), 4, 4)>> \o Lit(<<")">>)
      \o <<Star(NoneOf({"."}))>> \o Lit(<<".">>)

\* variant of entryIndex: the position among the matches, whatever number
\* the entry carries
entryIndex_position(raw, numberPattern, k) == k

\* the number captured by numMatch, k when there is no match
NumberOr(raw, numMatch, k) ==
    IF numMatch # Fail
    THEN ParseInt(SubSeq(raw, numMatch[3], numMatch[4] - 1))
    ELSE k

\* numMatch ? parseInt(numMatch[1]) : i + 1
entryIndex(raw, numberPattern, k) ==
    NumberOr(raw, Exec(numberPattern, raw, 0), k)

\* the candidates of a numbered strategy: the marker removed, the text
\* cleaned, the number of the entry as index
Numbered(raws, numberPattern, markerPattern) ==
    [k \in DOMAIN raws |->
        [raw |-> cleanCitation(Trim(RemoveFirst(markerPattern, raws[k]))),
         index |-> entryIndex(raws[k], numberPattern, k)]]

\* the candidates of an unnumbered strategy: index i + 1
Counted(raws) ==
    [k \in DOMAIN raws |-> [raw |-> cleanCitation(raws[k]), index |-> k]]

\* the citations pushed for the candidates kept
Pushed(kept) ==
    [k \in DOMAIN kept |-> [raw |-> kept[k].raw[1], index |-> kept[k].index]]

\* if (citation && looksLikeCitation(citation)) citations.push(...)
Accepted(candidates) ==
    Pushed(SelectSeq(candidates,
                     LAMBDA c : IF c.raw = Null THEN FALSE
                                ELSE looksLikeCitation(c.raw[1])))

\* variant of IfFound: the citations of a strategy whose matches pass the
\* threshold are returned also when none of them was accepted
IfFound_atThreshold(matches, citations, otherwise) ==
    IF Len(matches) <= 2 THEN otherwise ELSE citations

\* if (matches && matches.length > 2) { ...; if (citations.length > 0)
\* return citations; }: the citations of a strategy, or what follows it
IfFound(matches, citations, otherwise) ==
    IF Len(matches) <= 2 THEN otherwise
    ELSE IF citations = <<>> THEN otherwise
    ELSE citations

NumberedStrategy(matches, numberPattern, markerPattern, otherwise) ==
    IfFound(matches, Accepted(Numbered(matches, numberPattern, markerPattern)),
            otherwise)

CountedStrategy(matches, otherwise) ==
    IfFound(matches, Accepted(Counted(matches)), otherwise)

\* the four strategies in their order: [n], n., et al, author-year
parseCitations(text) ==
    NumberedStrategy(
        Matched(text, MatchAll(bracketPattern, text)),
        bracketNumber, bracketMarker,
        NumberedStrategy(
            Matched(text, MatchAll(dotPattern, text)), dotNumber, dotMarker,
            CountedStrategy(
                Matched(text, MatchAll(etAlPattern, text)),
                CountedStrategy(
                    Matched(text, MatchAll(authorYearPattern, text)),
                    <<>>))))

\* ------------------------------------------------------ references texts
\* A references text is up to MaxEntries entries, one per line, all numbered
\* the same way: "[n] ", "n. " or not at all, n counting up from `first`.
MaxEntries == 3

ShortOne == <<"S","m","i","t","h",","," ","J","."," ","T","i","t","l","e"," ","O",
      "n","e","."," ","(","2","0","2","0",")",".">>
ShortTwo == <<"D","o","e",","," ","A","."," ","T","i","t","l","e"," ","T","w","o",
      "."," ","(","2","0","2","1",")",".">>
EtAlEntry ==
    <<"V","a","s","w","a","n","i",","," ","A","."," ","e","t"," ","a",
          "l","."," "," ","A","t","t","e","n","t","i","o","n"," ","i","s",
          " ","a","l","l"," ","y","o","u"," ","n","e","e","d","."," ","N",
          "e","u","r","I","P","S"," ","3","0"," ","(","2","0","1","7",")",
          ".">>
\* (an entry of 540 characters)
LongEntry == <<"L","o","n","g",","," ","B","."," ","(","2","0","1","9",")","."," ">> \o Fill("x", 522) \o <<".">>
Entries == {ShortOne, ShortTwo, EtAlEntry, LongEntry}

Numberings == {<<"bracket", 1>>, <<"bracket", 9>>, <<"dot", 1>>, <<"none", 1>>}

RECURSIVE Decimal(_)
Decimal(n) ==
    IF n < 10 THEN <<Digits[n + 1]>>
    ELSE Decimal(n \div 10) \o <<Digits[(n % 10) + 1]>>

NumberedEntry(style, n, entry) ==
    CASE style = "bracket" -> <<"[">> \o Decimal(n) \o <<"]"," ">> \o entry
      [] style = "dot" -> Decimal(n) \o <<"."," ">> \o entry
      [] style = "none" -> entry

RECURSIVE Lines(_)
Lines(entries) ==
    IF entries = <<>> THEN <<>>
    ELSE IF Len(entries) = 1 THEN entries[1]
    ELSE entries[1] \o NL \o Lines(Tail(entries))

ReferencesText(style, first, entries) ==
    Lines([k \in DOMAIN entries |-> NumberedEntry(style, first + k - 1, entries[k])])

ReferencesTexts ==
    {ReferencesText(v[1], v[2], es) :
        v \in Numberings, es \in SeqsUpTo(Entries, MaxEntries) \ {<<>>}}

\* one call of parseCitations on a references text
InitSplitter ==
    /\ NoRun
    /\ input \in {Some(t) : t \in ReferencesTexts}
    /\ output = Null
    /\ called = ""
    /\ lastIndex = <<0, 0, 0>>

CallParseCitations ==
    /\ input # Null
    /\ output = Null
    /\ output' = Some(parseCitations(input[1]))
    /\ called' = "parseCitations"
    /\ UNCHANGED <<input, lastIndex, runVars>>

NextSplitter == CallParseCitations

SpecSplitter == InitSplitter /\ [][NextSplitter]_vars


\* -------------------------------------------------- claims on the splitter
TwoEntries == ReferencesText("bracket", 1, <<ShortOne, ShortTwo>>)
Indexes(citations) == [k \in DOMAIN citations |-> citations[k].index]
\* what cleanCitation makes of an entry that stands alone
Cleaned(entry) == Substring(Trim(CollapseWhiteSpace(entry)), 0, 500)

C14_CleanedLength ==
    output # Null
        => \A k \in DOMAIN output[1] :
               Len(output[1][k].raw) > 10 /\ Len(output[1][k].raw) <= 500

\* (a text of more than 500 characters was cut, and an unnumbered text
\* gave citations as well)
C14_Witness ==
    /\ input # Null
    /\ output # Null
    /\ \E k \in DOMAIN output[1] : Len(output[1][k].raw) = 500
    /\ Len(input[1]) > 1000

\* ------------------------------------------------ the order of strategies
\* References texts whose entries the strategies split differently: an entry
\* that begins with a heading word in lower case, an entry with "et al.",
\* an entry of fewer than 30 characters.
HeadedEntry ==
    <<"a","p","p","e","n","d","i","x"," ","t","o"," ","S","m","i","t","h",
      ","," ","J","."," ","L","o","n","g"," ","t","i","t","l","e"," ","o",
      "f"," ","t","h","e"," ","w","o","r","k","."," ","(","2","0","2","0",
      ")",".">>
StrategyEntries == {HeadedEntry, EtAlEntry, ShortOne}
StrategyNumberings == {<<"bracket", 1>>, <<"dot", 1>>, <<"none", 1>>}
StrategyTexts ==
    {ReferencesText(v[1], v[2], es) :
        v \in StrategyNumberings,
        es \in SeqsUpTo(StrategyEntries, MaxEntries) \ {<<>>}}

InitStrategies ==
    /\ NoRun
    /\ input \in {Some(t) : t \in StrategyTexts}
    /\ output = Null
    /\ called = ""
    /\ lastIndex = <<0, 0, 0>>

NextStrategies == CallParseCitations

SpecStrategies == InitStrategies /\ [][NextStrategies]_vars

\* the raw matches of the four strategies, in their order
StrategyMatches(text) ==
    << Matched(text, MatchAll(bracketPattern, text)),
       Matched(text, MatchAll(dotPattern, text)),
       Matched(text, MatchAll(etAlPattern, text)),
       Matched(text, MatchAll(authorYearPattern, text)) >>

\* the citations each strategy accepts of its raw matches
StrategyCitations(matches) ==
    << Accepted(Numbered(matches[1], bracketNumber, bracketMarker)),
       Accepted(Numbered(matches[2], dotNumber, dotMarker)),
       Accepted(Counted(matches[3])),
       Accepted(Counted(matches[4])) >>

\* C23 as claimed: parseCitations returns the citations of the first
\* strategy, in the order [n], n., et al, author-year, that has more than 2
\* raw matches, no later strategy being used once an earlier one has passed
\* this threshold, and the empty list when no strategy has more than 2.
C23_Original ==
    (input # Null /\ output # Null)
        => LET matches == StrategyMatches(input[1])
               citations == StrategyCitations(matches)
               passing == {k \in 1..4 : Len(matches[k]) > 2}
           IN  IF passing = {} THEN output[1] = <<>>
               ELSE output[1] = citations[Min(passing)]

\* C23 as amended: parseCitations returns the citations of the first
\* strategy, in that order, that has more than 2 raw matches and accepts at
\* least one of them; a strategy that passes the threshold on its raw
\* matches and accepts none is passed over for the later ones; the result
\* is the empty list when no strategy has both.
C23_FirstYielding ==
    (input # Null /\ output # Null)
        => LET matches == StrategyMatches(input[1])
               citations == StrategyCitations(matches)
               yielding == {k \in 1..4 : IF Len(matches[k]) > 2
                                         THEN citations[k] # <<>> ELSE FALSE}
           IN  IF yielding = {} THEN output[1] = <<>>
               ELSE output[1] = citations[Min(yielding)]

\* C23 witness: three bracketed entries that each begin with "appendix":
\* the bracket strategy has 3 raw matches and accepts none, and the call
\* returned the 3 citations of the et al strategy
C23_Witness ==
    /\ input # Null
    /\ output # Null
    /\ LET matches == StrategyMatches(input[1])
           citations == StrategyCitations(matches)
       IN  /\ Len(matches[1]) > 2
           /\ citations[1] = <<>>
           /\ Len(matches[3]) > 2
           /\ output[1] = citations[3]
           /\ Len(output[1]) = 3

\* ============================================================== extractDOI
\* [^\s\]\)>,;'"]
DoiEnd == WhiteSpace \cup {"]", ")", ">", ",", ";", "'", "\""}

\* the three patterns, each with the g and i flags
DOI_PATTERNS ==
    << \* /\b(10\.\d{4,}\/[^\s\]\)>,;'"]+)/gi
       <<WordB, Open>> \o Lit(<<"1","0",".">>) \o <<Times(One(D09), 4, -1)>> \o Lit(<<"/">>)
          \o <<Plus(NoneOf(DoiEnd)), Close>>,
       \* /doi[:\s]+([^\s\]\)>,;'"]+)/gi
       LitI(<<"d","o","i">>) \o <<Plus(One({":"} \cup WhiteSpace)), Open,
                          Plus(NoneOf(DoiEnd)), Close>>,
       \* /https?:\/\/(?:dx\.)?doi\.org\/([^\s\]\)>,;'"]+)/gi
       LitI(<<"h","t","t","p">>) \o <<Opt(One(BothCases("s")))>> \o Lit(<<":","/","/">>)
          \o <<Group(<<LitI(<<"d","x",".">>)>>, 0, 1)>> \o LitI(<<"d","o","i",".","o","r","g","/">>)
          \o <<Open, Plus(NoneOf(DoiEnd)), Close>> >>

\* /[.,;:\)\]}>'"]+$/
trailingPunctuation ==
    <<Plus(One({".", ",", ";", ":", ")", "]", "}", ">", "'", "\""})), Eol>>

\* exec of a pattern with the g flag: the search starts at lastIndex, and
\* lastIndex becomes the end of the match, or 0 when there is none
GlobalResult(m) ==
    [match |-> m, lastIndex |-> IF m = Fail THEN 0 ELSE m[2] - 1]
ExecGlobal(pattern, text, from) ==
    GlobalResult(IF from > Len(text) THEN Fail ELSE Exec(pattern, text, from))

\* variant of resetLastIndex: lastIndex stays what the last call left
resetLastIndex_stale(left) == left

\* pattern.lastIndex = 0
resetLastIndex(left) == 0

\* variant of validDOI: the length is not tested
validDOI_anyLength(doi) ==
    IF Len(doi) >= 3 THEN SubSeq(doi, 1, 3) = <<"1","0",".">> ELSE FALSE

\* doi.startsWith('10.') && doi.length > 7
validDOI(doi) ==
    IF Len(doi) > 7 THEN SubSeq(doi, 1, 3) = <<"1","0",".">> ELSE FALSE

\* the loop of extractDOI from the k-th pattern on, lastIndexes as they are:
\* the value returned (Null or Some(doi)) and the lastIndexes left
RECURSIVE extractDOIFrom(_, _, _)
RECURSIVE extractDOIMatched(_, _, _, _)
RECURSIVE extractDOIStripped(_, _, _, _)
extractDOIFrom(text, k, lastIndexes) ==
    IF k > Len(DOI_PATTERNS) THEN [doi |-> Null, lastIndex |-> lastIndexes]
    ELSE extractDOIMatched(
             text, k, lastIndexes,
             ExecGlobal(DOI_PATTERNS[k], text, resetLastIndex(lastIndexes[k])))

\* const match = pattern.exec(text); if (match) { let doi = match[1] ||
\* match[0]; doi = doi.replace(/[.,;:\)\]}>'"]+$/, ''); ... }
extractDOIMatched(text, k, lastIndexes, r) ==
    IF r.match = Fail
    THEN extractDOIFrom(text, k + 1, [lastIndexes EXCEPT ![k] = r.lastIndex])
    ELSE extractDOIStripped(
             text, k, [lastIndexes EXCEPT ![k] = r.lastIndex],
             RemoveFirst(trailingPunctuation,
                         SubSeq(text, r.match[3], r.match[4] - 1)))

\* if (doi.startsWith('10.') && doi.length > 7) return doi
extractDOIStripped(text, k, left, doi) ==
    IF validDOI(doi) THEN [doi |-> Some(doi), lastIndex |-> left]
    ELSE extractDOIFrom(text, k + 1, left)

\* extractDOI on the characters of a text
extractDOIText(text, lastIndexes) == extractDOIFrom(text, 1, lastIndexes)

\* ------------------------------------------------------- extraction calls
\* The texts extraction is called on: citations with a DOI in its several
\* forms, with two DOIs, with a DOI of 8 and of 7 characters, with none, and
\* references texts.
CitationDoi == <<"S","m","i","t","h",","," ","J","."," ","D","e","e","p"," ","l","e",
      "a","r","n","i","n","g","."," ","N","a","t","u","r","e"," ","(","2",
      "0","1","5",")","."," ","d","o","i",":","1","0",".","1","0","3","8",
      "/","n","a","t","u","r","e","1","4","5","3","9",".">>
CitationUrl == <<"S","e","e"," ","h","t","t","p","s",":","/","/","d","x",".","d","o",
      "i",".","o","r","g","/","1","0",".","1","0","0","0","/","x","y","z",
      "1","2","3",","," ","a","c","c","e","s","s","e","d"," ","2","0","2",
      "0",".">>
CitationTwoDois == <<"D","O","I",":"," ","1","0",".","5","5","5","5","/","1","2","3","4",
      "5","6","7","8",";"," ","e","r","r","a","t","u","m"," ","1","0",".",
      "1","2","3","4","/","a","b","c","d",".","e","f","g","h">>
CitationBadDoi == <<"L","e","e",","," ","K","."," ","N","o","t","e","s"," ","(","2","0",
      "1","9",")","."," ","d","o","i",":","p","e","n","d","i","n","g">>
CitationNoDoi == <<"D","o","e",","," ","A","."," ","A"," ","t","i","t","l","e"," ","w",
      "i","t","h","o","u","t"," ","i","d","e","n","t","i","f","i","e","r",
      "."," ","(","2","0","2","1",")",".">>
CitationShortDoi == <<"K","i","m",","," ","L","."," ","A"," ","n","o","t","e","."," ","(",
      "2","0","1","8",")","."," ","d","o","i",":","1","0",".","1","2","3",
      "4","5",".">>
CitationCutDoi == <<"K","i","m",","," ","L","."," ","A"," ","n","o","t","e","."," ","(",
      "2","0","1","8",")","."," ","d","o","i",":","1","0",".","1","2","3",
      "4",".">>
ThreeEntries ==
    ReferencesText("bracket", 1, <<EtAlEntry, CitationDoi, CitationTwoDois>>)
ExtractionTexts ==
    {CitationDoi, CitationUrl, CitationTwoDois, CitationBadDoi, CitationNoDoi,
     CitationShortDoi, CitationCutDoi, TwoEntries, ThreeEntries}

\* the next text extraction is called on
TakeText ==
    /\ \E t \in ExtractionTexts : input' = Some(t)
    /\ output' = Null
    /\ called' = ""
    /\ UNCHANGED <<lastIndex, runVars>>

CallExtractDOI ==
    /\ input # Null
    /\ output = Null
    /\ LET r == extractDOIText(input[1], lastIndex)
       IN  /\ output' = Some(r.doi)
           /\ lastIndex' = r.lastIndex
    /\ called' = "extractDOI"
    /\ UNCHANGED <<input, runVars>>

NextExtraction == TakeText \/ CallParseCitations \/ CallExtractDOI

SpecExtraction == Init /\ [][NextExtraction]_vars

\* ------------------------------------------------- claims on repeatability
\* C15: extraction is repeatable.  Whatever calls of parseCitations and
\* extractDOI came before, and whatever lastIndex they left in the shared
\* patterns, a call returns what it returns on the same text with the
\* patterns as new: the same indexes, texts and DOI.
C15_Repeatable ==
    output # Null =>
        /\ called = "parseCitations" => output[1] = parseCitations(input[1])
        /\ called = "extractDOI"
               => output[1] = extractDOIText(input[1], <<0, 0, 0>>).doi

\* (a DOI returned by a call that found the second pattern as an earlier
\* call on another text had left it)
C15_Witness ==
    /\ called = "extractDOI"
    /\ input = Some(CitationDoi)
    /\ output = Some(Some(<<"1","0",".","1","0","3","8","/","n","a","t","u","r","e","1","4",
          "5","3","9">>))
    /\ lastIndex[1] > 0
    /\ lastIndex[2] > 0

\* ------------------------------------------- claims on the DOI returned
Punctuation == {".", ",", ";", ":", ")", "]", "}", ">", "'", "\""}

\* C25 as claimed: every DOI extractDOI returns starts with "10.", does not
\* end with a punctuation mark of the stripped set, and has at least 8
\* characters after the prefix "10.".
C25_Original ==
    (called = "extractDOI" /\ output # Null)
        => IF output[1] = Null THEN TRUE
           ELSE /\ SubSeq(output[1][1], 1, 3) = <<"1","0",".">>
                /\ output[1][1][Len(output[1][1])] \notin Punctuation
                /\ Len(output[1][1]) - 3 >= 8

\* C25 as amended: every DOI extractDOI returns starts with "10.", does not
\* end with a punctuation mark of the stripped set, and has more than 7
\* characters in all, the prefix included: at least 5 after the prefix.
C25_MoreThanSeven ==
    (called = "extractDOI" /\ output # Null)
        => IF output[1] = Null THEN TRUE
           ELSE /\ SubSeq(output[1][1], 1, 3) = <<"1","0",".">>
                /\ output[1][1][Len(output[1][1])] \notin Punctuation
                /\ Len(output[1][1]) > 7

\* C25 witness: the DOI "10.12345", of 5 characters after the prefix, was
\* returned for a text that ends with "doi:10.12345."
C25_Witness ==
    /\ called = "extractDOI"
    /\ input = Some(CitationShortDoi)
    /\ output = Some(Some(<<"1","0",".","1","2","3","4","5">>))

\* ========================================================== extractBiblio
\* /^([A-Z][a-z]+)/
authorMatchPattern == <<Bos, Open, One(AZ), Plus(One(az)), Close>>

\* /\((\d{4})\)/
yearMatchPattern ==
    Lit(<<"(">>) \o <<Open, Times(One(D09), 4, 4), Close>> \o Lit(<<")">>)

Dot == Opt(One({"."}))

journalPatterns ==
    << \* /\b(Nature|Science|Cell|PNAS|PLoS|Phys\.?\s*Rev|J\.?\s*Chem|Nat\.?\s*\w+)\b/i
       <<WordB, Open,
         Group(<< LitI(<<"N","a","t","u","r","e">>), LitI(<<"S","c","i","e","n","c","e">>), LitI(<<"C","e","l","l">>),
                  LitI(<<"P","N","A","S">>), LitI(<<"P","L","o","S">>),
                  LitI(<<"P","h","y","s">>) \o <<Dot, Star(Ws)>> \o LitI(<<"R","e","v">>),
                  LitI(<<"J">>) \o <<Dot, Star(Ws)>> \o LitI(<<"C","h","e","m">>),
                  LitI(<<"N","a","t">>) \o <<Dot, Star(Ws), Plus(One(WordChars))>> >>,
               1, 1),
         Close, WordB>>,
       \* /\b([A-Z][a-z]+\.?\s+[A-Z][a-z]+\.?)\s+\d+/
       <<WordB, Open, One(AZ), Plus(One(az)), Dot, Plus(Ws),
         One(AZ), Plus(One(az)), Dot, Close, Plus(Ws), Plus(One(D09))>> >>

\* /\b(\d{1,4}),\s*(\d+)/
volMatchPattern ==
    <<WordB, Open, Times(One(D09), 1, 4), Close>> \o Lit(<<",">>)
        \o <<Star(Ws), Plus(One(D09))>>
\* what precedes the second group in a match of it
volPrefix == <<Bos, Times(One(D09), 1, 4)>> \o Lit(<<",">>) \o <<Star(Ws)>>

NoKeys == [k \in {} |-> <<>>]

\* if (m) biblio[key] = m[1]
Captured(key, text, m) ==
    IF m = Fail THEN NoKeys ELSE key :> SubSeq(text, m[3], m[4] - 1)

\* for (const pattern of journalPatterns) { ...; if (match) {
\* biblio.journal = match[1]; break; } }
journalOf(text, first, second) ==
    IF first # Fail THEN Captured("journal", text, first)
    ELSE Captured("journal", text, second)

\* if (volMatch) { biblio.volume = volMatch[1]; biblio.page = volMatch[2]; }
volumeAndPage(text, volMatch) ==
    IF volMatch = Fail THEN NoKeys
    ELSE ("volume" :> SubSeq(text, volMatch[3], volMatch[4] - 1))
            @@ ("page" :> RemoveFirst(volPrefix,
                                      SubSeq(text, volMatch[1], volMatch[2] - 1)))

\* variant of usable: the volume and the page count as one field
usable_pairAsOne(biblio) ==
    IF Cardinality(DOMAIN biblio \ {"page"}) >= 2 THEN Some(biblio) ELSE Null

\* return Object.keys(biblio).length >= 2 ? biblio : null
usable(biblio) ==
    IF Cardinality(DOMAIN biblio) >= 2 THEN Some(biblio) ELSE Null

\* extractBiblio on the characters of a text
extractBiblioText(text) ==
    usable(Captured("author", text, Exec(authorMatchPattern, text, 0))
           @@ Captured("year", text, Exec(yearMatchPattern, text, 0))
           @@ journalOf(text, Exec(journalPatterns[1], text, 0),
                        Exec(journalPatterns[2], text, 0))
           @@ volumeAndPage(text, Exec(volMatchPattern, text, 0)))

\* ---------------------------------------------------- extractBiblio calls
\* A citation text is up to MaxParts parts with a blank between them: an
\* author, words in lower case, a year in parentheses, a journal name, an
\* abbreviated journal with a number, a volume and page.
MaxParts == 3

AuthorPart == <<"S","m","i","t","h",","," ","J",".">>
WordsPart == <<"s","e","e"," ","a","l","s","o">>
YearPart == <<"(","2","0","2","0",")">>
JournalPart == <<"N","a","t","u","r","e">>
AbbreviatedPart == <<"C","h","e","m","."," ","P","h","y","s","."," ","7">>
VolumePart == <<"1","2",","," ","3","4","5">>
Parts ==
    {AuthorPart, WordsPart, YearPart, JournalPart, AbbreviatedPart, VolumePart}

RECURSIVE Spaced(_)
Spaced(parts) ==
    IF parts = <<>> THEN <<>>
    ELSE IF Len(parts) = 1 THEN parts[1]
    ELSE parts[1] \o SP \o Spaced(Tail(parts))

BiblioTexts == {Spaced(ps) : ps \in SeqsUpTo(Parts, MaxParts) \ {<<>>}}

InitBiblio ==
    /\ NoRun
    /\ input \in {Some(t) : t \in BiblioTexts}
    /\ output = Null
    /\ called = ""
    /\ lastIndex = <<0, 0, 0>>

CallExtractBiblio ==
    /\ input # Null
    /\ output = Null
    /\ output' = Some(extractBiblioText(input[1]))
    /\ called' = "extractBiblio"
    /\ UNCHANGED <<input, lastIndex, runVars>>

NextBiblio == CallExtractBiblio

SpecBiblio == InitBiblio /\ [][NextBiblio]_vars

\* the fields of the four that the text has: a surname at its start, a year
\* in parentheses, a journal token, a volume/page pair
FieldsFound(text) ==
    {f \in {"author", "year", "journal", "volume/page"} :
        CASE f = "author" -> Test(authorMatchPattern, text)
          [] f = "year" -> Test(yearMatchPattern, text)
          [] f = "journal" -> IF Test(journalPatterns[1], text) THEN TRUE
                              ELSE Test(journalPatterns[2], text)
          [] f = "volume/page" -> Test(volMatchPattern, text)}

\* C24 as claimed: extractBiblio returns a bundle only if at least 2 of the
\* 4 fields were found; a text with only one of them yields null.
C24_Original ==
    (input # Null /\ output # Null /\ called = "extractBiblio")
        => (output[1] # Null <=> Cardinality(FieldsFound(input[1])) >= 2)

\* C24 as amended: extractBiblio returns a bundle exactly if a volume/page
\* pair was found, which is stored as two properties and is enough alone, or
\* at least 2 of surname, year and journal token were found; in every other
\* case, that of a lone surname, year or journal token among them, it
\* returns null.
C24_TwoProperties ==
    (input # Null /\ output # Null /\ called = "extractBiblio")
        => (output[1] # Null
              <=> IF "volume/page" \in FieldsFound(input[1]) THEN TRUE
                  ELSE Cardinality(FieldsFound(input[1])) >= 2)

\* C24 witness: a text in which only a volume/page pair was found, for
\* which the call returned the bundle of volume and page
C24_Witness ==
    /\ input # Null
    /\ output # Null
    /\ called = "extractBiblio"
    /\ FieldsFound(input[1]) = {"volume/page"}
    /\ output[1] = Some(("volume" :> <<"1","2">>) @@ ("page" :> <<"3","4","5">>))


\* ============================================== calls of calculateSimilarity
\* The strings compared: up to MaxWords words each, separated by white
\* space; "of" is a word that the filter w.length > 2 drops.
MaxWords == 2
Words == {"of", "deep", "learning", "ghost"}
Strings == SeqsUpTo(Words, MaxWords)

InitSimilarity ==
    /\ NoRun
    /\ input \in {Some(<<str1, str2>>) : str1 \in Strings, str2 \in Strings}
    /\ output = Null
    /\ called = ""
    /\ lastIndex = <<0, 0, 0>>

CallCalculateSimilarity ==
    /\ input # Null
    /\ output = Null
    /\ output' = Some(calculateSimilarity(input[1][1], input[1][2]))
    /\ called' = "calculateSimilarity"
    /\ UNCHANGED <<input, lastIndex, runVars>>

NextSimilarity == CallCalculateSimilarity

SpecSimilarity == InitSimilarity /\ [][NextSimilarity]_vars

\* equality of two fractions
SameValue(p, q) == p[1] * q[2] = q[1] * p[2]

\* C16: calculateSimilarity(a, b) has the value of calculateSimilarity(b, a),
\* and the value is at least 0 and at most 1.
C16_Symmetric ==
    output # Null =>
        LET s == output[1]
        IN  /\ SameValue(s, calculateSimilarity(input[1][2], input[1][1]))
            /\ s[2] > 0
            /\ 0 <= s[1]
            /\ s[1] <= s[2]

\* (two different strings that share one word of two, one of them with a
\* word the filter drops)
C16_Witness ==
    /\ input = Some(<< <<"of", "deep">>, <<"deep", "learning">> >>)
    /\ output = Some(<<1, 2>>)

\* ------------------------------------------------ claims on the result set
IndexesUnique(rs) == \A a, b \in DOMAIN rs : rs[a].index = rs[b].index => a = b

\* C17: in the result set of a run, the results of the DOIs of the document
\* followed by the results of the citations, no two results have the same
\* index, also when two citations of the references text carry the same
\* number.
C17_UniqueIndexes ==
    /\ IndexesUnique(allResults)
    /\ currentResults # Null => IndexesUnique(currentResults[1])

\* (a run that ended with the result of a DOI and the results of two
\* citations that carry the same number)
C17_Witness ==
    /\ pc = "idle"
    /\ currentResults # Null
    /\ Len(doiResults) = 1
    /\ Len(unverifiedCitations) = 2
    /\ unverifiedCitations[1].index = unverifiedCitations[2].index
    /\ currentResults[1] = allResults
    /\ Len(allResults) = 3

\* the results pushed so far are what they were
SameResults(before, after) ==
    \A k \in DOMAIN before \cap DOMAIN after : after[k] = before[k]

\* the title search has just returned
TitleStageEnded ==
    IF Len(log) > 0
    THEN IF log[Len(log)].event = "lookup" THEN log[Len(log)].kind = "title"
         ELSE FALSE
    ELSE FALSE

\* what searchCrossRef returned then, and the result held since
TitleReturned ==
    LET e == log[Len(log)]
        citation == unverifiedCitations[i]
    IN  searchCrossRef(e.query, citation.raw, citation.index, e.response)
TitleHeld == IF pc = "biblio" THEN result[1] ELSE citResults[Len(citResults)]

\* C18 (as stated): a result is never changed after a lookup stage returned
\* it: the results pushed keep all their fields to the end of the run.
C18_Original ==
    [][SameResults(doiResults, doiResults') /\ SameResults(citResults, citResults')]_vars

\* C18 (amended): a result is changed after its creation in two places
\* only.  The result searchCrossRef returned gets the field method, with
\* the value "title", before anything else is done with it; and, when
\* verifyCitations has returned, the index of each of its results is
\* overwritten by the number of DOI results plus the result's position.
\* Nothing else changes: the results of verifyDOIs stay as pushed, and the
\* bibliographic stage pushes either its own result or the title stage's,
\* whole.
C18_IndexAndMethodOnly ==
    /\ [][/\ SameResults(doiResults, doiResults')
          /\ \A k \in DOMAIN citResults \cap DOMAIN citResults' :
                \/ citResults'[k] = citResults[k]
                \/ /\ pc = "sleepCitations"
                   /\ pc' = "idle"
                   /\ citResults'[k] =
                          [citResults[k] EXCEPT !.index = Len(allResults) + k]
          /\ pc = "biblio" /\ pc' = "sleepCitations"
                => LET pushed == citResults'[Len(citResults')]
                   IN  pushed = result[1] \/ Method(pushed) = "biblio"]_vars
    /\ [](TitleStageEnded
            => /\ ~Has(TitleReturned, "method")
               /\ TitleHeld = Spread(TitleReturned, [method |-> "title"]))

\* (a run has ended in which the result of a title search got another index
\* than the one it was created with)
C18_Witness ==
    /\ pc = "idle"
    /\ currentResults # Null
    /\ \E k \in DOMAIN citResults :
          /\ Method(citResults[k]) = "title"
          /\ citResults[k].index # unverifiedCitations[k].index
          /\ citResults[k].index = Len(doiResults) + k

\* C19: for a citation without a DOI and with a bibliographic bundle, the
\* bibliographic search is issued whenever the title stage gave no usable
\* result (the title search was not attempted, or was attempted and
\* returned no candidate) or classified NotFound, and it is never issued
\* after the title stage classified the citation Verified.
C19_BiblioIssued ==
    \A k \in DOMAIN citResults :
        LET citation == unverifiedCitations[k]
            ls == LookupsOf("citations", k)
            searched == \E n \in DOMAIN ls : ls[n].kind = "biblio"
        IN  ~HasDOI(citation) /\ extractBiblio(citation.raw) # Null
                => /\ ~Among(ls, "title", SomeItems) => searched
                   /\ Among(ls, "title", SomeItems) => ~searched

\* ------------------------------------------------- claims on the pauses
BackToBack(k) ==
    IF k < Len(log)
    THEN log[k].event = "lookup" /\ log[k + 1].event = "lookup"
    ELSE FALSE

\* C26 as claimed: within a run, between any two consecutive lookup
\* requests, for the same citation or for successive ones, a pause elapses:
\* no two requests are issued back to back.
C26_Original == \A k \in DOMAIN log : ~BackToBack(k)

\* C26 as amended: within a run every pause lasts 150 to 250 ms, and two
\* lookup requests are issued back to back only when they are the title
\* search and the bibliographic search of one citation; between the
\* requests of different DOIs or citations a pause elapses.
C26_PauseBetweenItems ==
    \A k \in DOMAIN log :
        /\ log[k].event = "sleep" => log[k].ms \in 150..250
        /\ BackToBack(k)
              => /\ log[k].phase = "citations"
                 /\ log[k + 1].phase = "citations"
                 /\ log[k].i = log[k + 1].i
                 /\ log[k].kind = "title"
                 /\ log[k + 1].kind = "biblio"

\* C26 witness: a run in which a DOI lookup, a pause, then the title search
\* and the bibliographic search of one citation back to back, then a pause
\* are on record
C26_Witness ==
    \E k \in DOMAIN log :
        /\ k > 2
        /\ BackToBack(k)
        /\ log[k - 1].event = "sleep"
        /\ log[k - 2].event = "lookup"
        /\ log[Len(log)].event = "sleep"

\* ----------------------------------------------- claims on the progress
\* the k-th report of the run is lower than the one before it
Drops(k) == IF k > 1 THEN ~NoMore(progress[k - 1], progress[k]) ELSE FALSE

DoiLookup(k) == IF log[k].event = "lookup" THEN log[k].kind = "doi" ELSE FALSE

\* the document-wide pass has a Verified result that carries this DOI
VerifiedInPass(doi) ==
    \E n \in DOMAIN doiResults :
        IF doiResults[n].valid = "true"
        THEN IF doiResults[n].doi = UNDEFINED THEN FALSE
             ELSE ToLowerCase(doiResults[n].doi) = ToLowerCase(doi)
        ELSE FALSE

\* C28 as claimed: in one run each DOI is looked up by identifier at most
\* once and has at most one result: a citation whose DOI the document-wide
\* pass handled is not verified again, whatever the outcome was.
C28_Original ==
    /\ \A a, b \in DOMAIN log :
          (DoiLookup(a) /\ DoiLookup(b) /\ a # b) => log[a].query # log[b].query
    /\ \A a, b \in DOMAIN allResults :
          (Has(allResults[a], "doi") /\ Has(allResults[b], "doi") /\ a # b)
              => allResults[a].doi # allResults[b].doi

\* C28 as amended: a citation is left out of the per-citation pass only when
\* the document-wide pass has a Verified result that carries its DOI, case
\* ignored: no DOI looked up by identifier in the per-citation pass was
\* Verified under that DOI in the document-wide pass, and every citation of
\* the file that has no DOI, or whose DOI has no such Verified result, also
\* one whose first lookup came back NotFound or Indeterminate, is among
\* the citations verified one by one.
C28_VerifiedOnly ==
    /\ \A k \in DOMAIN log :
          (DoiLookup(k) /\ log[k].phase = "citations")
              => ~VerifiedInPass(log[k].query)
    /\ unverifiedCitations # <<>>
          => unverifiedCitations =
                SelectSeq(selectedFile[1].citations,
                          LAMBDA c : IF extractDOI(c.raw) = NULL THEN TRUE
                                     ELSE ~VerifiedInPass(extractDOI(c.raw)))

\* C28 witness: a finished run in which the document-wide pass looked a DOI
\* up and got 404, the per-citation pass looked the same DOI up again, and
\* the results shown hold two results for it
C28_Witness ==
    /\ pc = "idle"
    /\ currentResults # Null
    /\ \E a, b \in DOMAIN log :
          /\ DoiLookup(a) /\ DoiLookup(b)
          /\ log[a].phase = "dois" /\ log[b].phase = "citations"
          /\ log[a].query = log[b].query
          /\ log[a].response = HttpError(404)
    /\ \E a, b \in DOMAIN allResults :
          /\ a # b
          /\ Has(allResults[a], "doi") /\ Has(allResults[b], "doi")
          /\ allResults[a].doi = allResults[b].doi

\* ------------------------------------------------ claims on the sections
Visible(section) == section \notin hidden

\* C29: after any sequence of UI events (file select, clear file, verify
\* click, a run that ends with results or with an error, filter click, new
\* upload, retry) from the page as loaded, the results section is visible
\* only while currentResults is a list, so that a filter click never renders
\* null, and the results and error sections are never visible together.
C29_ResultsShown ==
    /\ Visible("results") => currentResults # Null
    /\ ~(Visible("results") /\ Visible("error"))

\* C29 witness: the results of a run are shown, no other section is, and a
\* filter click is possible
C29_Witness ==
    /\ Visible("results")
    /\ ~Visible("error") /\ ~Visible("upload") /\ ~Visible("progress")
    /\ currentResults # Null
    /\ ENABLED filterClick

\* ------------------------------------------------- claims on the match badge
\* the stage that produced the result of citation k: the kind of its last lookup
LastStage(phase, k) ==
    LET kinds == KindsOf(phase, k) IN kinds[Len(kinds)]

\* the method of every Verified result is the stage that produced it
MethodIsStage ==
    /\ \A k \in DOMAIN doiResults :
          doiResults[k].valid = "true"
            => Method(doiResults[k]) = "doi" /\ LastStage("dois", k) = "doi"
    /\ \A k \in DOMAIN citResults :
          citResults[k].valid = "true"
            => /\ Method(citResults[k]) \in {"doi", "title", "biblio"}
               /\ Method(citResults[k]) = LastStage("citations", k)

\* result.similarity in the badge of renderCitation is a number
BadgeShowsNumber(res) ==
    IF Has(res, "similarity") THEN res.similarity \in 0..100 ELSE FALSE

\* C30: every Verified result has a method equal to the stage that produced
\* it ("doi", "title" or "biblio"), and every Verified result whose method
\* is not "doi" carries a numeric similarity, so that the match badge
\* rendered for it shows a number.
C30_Original ==
    /\ MethodIsStage
    /\ \A k \in DOMAIN citResults :
          (citResults[k].valid = "true" /\ Method(citResults[k]) # "doi")
            => BadgeShowsNumber(citResults[k])

\* the part of C30 on the title stage alone
TitleBadgeShowsNumber ==
    \A k \in DOMAIN citResults :
        (citResults[k].valid = "true" /\ Method(citResults[k]) = "title")
          => BadgeShowsNumber(citResults[k])

====
